---- MODULE Spec2Model ----
(***************************************************************************)
(* A model of the Gmail tool server (gmail_server.py, utils/gmail_api.py). *)
(* Every tool is one action.  The mailbox (labels, messages, drafts, the   *)
(* account address) is the external state the transport calls read and     *)
(* write; inv is the record of the last tool invocation: the transport     *)
(* calls it made, in order, with their outcomes, the message it composed   *)
(* and the result it returned.                                             *)
(***************************************************************************)
EXTENDS Integers, Sequences, FiniteSets, TLC

VARIABLES
    labels,     \* the mailbox's label list: a sequence of [id, name, type]
    msgs,       \* message id -> the stored message (labelIds, trashed, payload)
    drafts,     \* draft id -> None or the stored draft's payload
    profile,    \* the authenticated account's address (getProfile)
    files,      \* path -> what the file system holds there
    inv,        \* the last tool invocation
    served      \* how many results the server has delivered

vars == <<labels, msgs, drafts, profile, files, inv, served>>

-----------------------------------------------------------------------------
(* Python values.  An Optional is a sequence of length 0 (None) or 1.  A   *)
(* str that is only carried around (an id, a header value, a path) is a    *)
(* TLA+ string; a str that is encoded or decoded (a body) is the sequence  *)
(* of its code points.                                                     *)

None == <<>>

Some(x) == <<x>>

IsNone(o) == o = <<>>

Val(o) == o[1]

\* bool(x) for an Optional[str] held as a TLA+ string: None and "" are falsy
TruthyStr(o) == o # None /\ Val(o) # ""

\* bool(x) for an Optional[str] held as code points: None and "" are falsy
TruthyText(o) == o # None /\ Val(o) # <<>>

\* the outcome of an expression that may raise: its value, or the exception
Ok(v) == [ok |-> TRUE, v |-> v]

Raises(exc) == [ok |-> FALSE, exc |-> exc]

-----------------------------------------------------------------------------
(* base64.urlsafe_b64decode / urlsafe_b64encode.  A base64 string is the   *)
(* sequence of its characters' values: 0..63 for the alphabet (the urlsafe *)
(* '-' and '_' are 62 and 63, as are '+' and '/'), Pad for '=', and        *)
(* OtherChar for a character outside the alphabet, which the non-strict    *)
(* decoder discards.                                                       *)

Pad == 64

OtherChar == 65

\* binascii.a2b_base64 (non-strict), one character at a time: q is quad_pos,
\* left is leftchar, pads the count of consecutive '=' seen.
RECURSIVE a2b_base64(_, _, _, _, _, _)
a2b_base64(s, i, q, left, pads, out) ==
    IF i > Len(s)
    THEN IF q = 0 THEN Ok(out) ELSE Raises("binascii.Error")
    ELSE LET c == s[i] IN
         IF c = Pad
         THEN IF q >= 2 /\ q + pads + 1 >= 4
              THEN Ok(out)
              ELSE a2b_base64(s, i + 1, q, left, pads + 1, out)
         ELSE IF c >= 64
         THEN a2b_base64(s, i + 1, q, left, pads, out)
         ELSE CASE q = 0 -> a2b_base64(s, i + 1, 1, c, 0, out)
                [] q = 1 -> a2b_base64(s, i + 1, 2, c % 16, 0,
                                       Append(out, (left * 4) + (c \div 16)))
                [] q = 2 -> a2b_base64(s, i + 1, 3, c % 4, 0,
                                       Append(out, (left * 16) + (c \div 4)))
                [] q = 3 -> a2b_base64(s, i + 1, 0, 0, 0,
                                       Append(out, (left * 64) + c))

urlsafe_b64decode(s) == a2b_base64(s, 1, 0, 0, 0, <<>>)

RECURSIVE urlsafe_b64encode(_)
urlsafe_b64encode(b) ==
    CASE Len(b) = 0 -> <<>>
      [] Len(b) = 1 -> <<b[1] \div 4, (b[1] % 4) * 16, Pad, Pad>>
      [] Len(b) = 2 -> <<b[1] \div 4, ((b[1] % 4) * 16) + (b[2] \div 16),
                         (b[2] % 16) * 4, Pad>>
      [] OTHER -> <<b[1] \div 4, ((b[1] % 4) * 16) + (b[2] \div 16),
                    ((b[2] % 16) * 4) + (b[3] \div 64), b[3] % 64>>
                  \o urlsafe_b64encode(SubSeq(b, 4, Len(b)))

-----------------------------------------------------------------------------
(* str.encode('utf-8') and bytes.decode('utf-8', errors=...) for code      *)
(* points below 65536.                                                     *)

ReplacementChar == 65533

IsCont(b) == b >= 128 /\ b <= 191

RECURSIVE utf8_encode(_)
utf8_encode(t) ==
    IF t = <<>> THEN <<>>
    ELSE LET c == Head(t) IN
         (CASE c < 128 -> <<c>>
            [] c >= 128 /\ c < 2048 -> <<192 + (c \div 64), 128 + (c % 64)>>
            [] OTHER -> <<224 + (c \div 4096), 128 + ((c \div 64) % 64), 128 + (c % 64)>>)
         \o utf8_encode(Tail(t))

\* the code point starting at b[i] and the bytes it takes, or [n |-> 0, ...]
\* with the length of the ill-formed sequence in bad
utf8_next(b, i) ==
    LET b1 == b[i]
        has2 == i + 1 <= Len(b) /\ IsCont(b[i + 1])
        ok3a == i + 1 <= Len(b) /\ IsCont(b[i + 1])
                /\ (b1 = 224 => b[i + 1] >= 160)
                /\ (b1 = 237 => b[i + 1] <= 159)
        has3 == ok3a /\ i + 2 <= Len(b) /\ IsCont(b[i + 2])
    IN  CASE b1 < 128 -> [n |-> 1, cp |-> b1, bad |-> 0]
          [] b1 >= 194 /\ b1 <= 223 ->
                IF has2
                THEN [n |-> 2, cp |-> ((b1 - 192) * 64) + (b[i + 1] - 128), bad |-> 0]
                ELSE [n |-> 0, cp |-> 0, bad |-> 1]
          [] b1 >= 224 /\ b1 <= 239 ->
                IF has3
                THEN [n |-> 3,
                      cp |-> ((b1 - 224) * 4096) + ((b[i + 1] - 128) * 64) + (b[i + 2] - 128),
                      bad |-> 0]
                ELSE [n |-> 0, cp |-> 0, bad |-> IF ok3a THEN 2 ELSE 1]
          [] OTHER -> [n |-> 0, cp |-> 0, bad |-> 1]

RECURSIVE utf8_decode_from(_, _, _, _)
utf8_decode_from(b, i, replace, out) ==
    IF i > Len(b) THEN Ok(out)
    ELSE LET r == utf8_next(b, i) IN
         IF r.n > 0 THEN utf8_decode_from(b, i + r.n, replace, Append(out, r.cp))
         ELSE IF replace
              THEN utf8_decode_from(b, i + r.bad, replace, Append(out, ReplacementChar))
              ELSE Raises("UnicodeDecodeError")

\* bytes.decode('utf-8'): raises on an ill-formed sequence
utf8_decode(b) == utf8_decode_from(b, 1, FALSE, <<>>)

\* bytes.decode('utf-8', errors='replace')
utf8_decode_replace(b) == utf8_decode_from(b, 1, TRUE, <<>>)

-----------------------------------------------------------------------------
(* The transport.  A call to the external API succeeds, or is rejected by  *)
(* the API (googleapiclient's HttpError), or fails in another way (a       *)
(* connection error, a timeout: some other Exception).                     *)

Outcomes == {"ok", "reject", "fault"}

\* get_gmail_service() builds the client: it returns the service or raises
ServiceOutcomes == {"ok", "fault"}

ExcOf(o) == IF o = "reject" THEN "HttpError" ELSE "TransportError"

\* the API rejects a call on an id that does not exist
Transport(o, exists) == IF o = "ok" /\ ~exists THEN "reject" ELSE o

\* one transport call of an invocation: add/remove are the label ids of a
\* messages().modify body, reply the stored object a successful get returned
CallM(op, target, outcome, add, remove) ==
    [op |-> op, target |-> target, outcome |-> outcome, add |-> add, remove |-> remove,
     reply |-> None]

Call(op, target, outcome) == CallM(op, target, outcome, {}, {})

\* stored is the Optional the mailbox holds for the target
CallR(op, target, outcome, stored) ==
    [Call(op, target, outcome) EXCEPT !.reply = IF outcome = "ok" THEN stored ELSE None]

\* utils.gmail_api: each wrapper catches HttpError only; it either returns a
\* default (the reject is swallowed) or logs and re-raises.
\* a wrapper that answers a rejected lookup with an empty profile
get_profile_empty(o, p) ==
    CASE o = "ok" -> Ok(Some(p)) [] o = "reject" -> Ok(Some("")) [] OTHER -> Raises(ExcOf(o))

get_profile(o, p) ==
    CASE o = "ok" -> Ok(Some(p)) [] o = "reject" -> Ok(None) [] OTHER -> Raises(ExcOf(o))

get_message(o, m) == IF o = "ok" THEN Ok(m) ELSE Raises(ExcOf(o))

search_messages(o, ids) ==
    CASE o = "ok" -> Ok(ids) [] o = "reject" -> Ok(<<>>) [] OTHER -> Raises(ExcOf(o))

list_drafts(o, ds) ==
    CASE o = "ok" -> Ok(ds) [] o = "reject" -> Ok(<<>>) [] OTHER -> Raises(ExcOf(o))

get_draft(o, d) ==
    CASE o = "ok" -> Ok(d) [] o = "reject" -> Ok(None) [] OTHER -> Raises(ExcOf(o))

create_draft(o, id) == IF o = "ok" THEN Ok(id) ELSE Raises(ExcOf(o))

update_draft(o, id) == IF o = "ok" THEN Ok(id) ELSE Raises(ExcOf(o))

send_message(o, id) == IF o = "ok" THEN Ok(id) ELSE Raises(ExcOf(o))

delete_message(o) == IF o = "ok" THEN Ok(TRUE) ELSE Raises(ExcOf(o))

modify_message(o) == IF o = "ok" THEN Ok(TRUE) ELSE Raises(ExcOf(o))

get_labels(o, ls) ==
    CASE o = "ok" -> Ok(ls) [] o = "reject" -> Ok(<<>>) [] OTHER -> Raises(ExcOf(o))

create_label(o, id) == IF o = "ok" THEN Ok(id) ELSE Raises(ExcOf(o))

delete_label(o) == IF o = "ok" THEN Ok(TRUE) ELSE Raises(ExcOf(o))

apply_label(o) == IF o = "ok" THEN Ok(TRUE) ELSE Raises(ExcOf(o))

remove_label(o) == IF o = "ok" THEN Ok(TRUE) ELSE Raises(ExcOf(o))

-----------------------------------------------------------------------------
(* The result string of a tool, by what it says.  kind is success, error,  *)
(* not_found, empty, noop, refused or exists; "raised" stands for a fault  *)
(* that leaves the tool instead of a string.                               *)

\* info is what else the string names: recipients, file names, counts
ResultI(kind, detail, id, info) ==
    [kind |-> kind, detail |-> detail, id |-> id, info |-> info]

Result(kind, detail, id) == ResultI(kind, detail, id, <<>>)

\* issubclass(exc, cls) for the exceptions of the model
Catches(cls, exc) == cls = "Exception" \/ cls = exc

\* try: <body> except <classes[1]>: ... except <classes[2]>: ...
\* each handler returns its error string; an exception no handler catches
\* propagates to the caller
TryExcept(out, classes) ==
    IF out.ok THEN out.v
    ELSE LET hit == {i \in 1..Len(classes) : Catches(classes[i], out.exc)} IN
         IF hit = {} THEN Result("raised", out.exc, "")
         ELSE Result("error", out.exc, "")

\* what a tool run leaves: its transport calls, the message it handed to the
\* transport (None when it handed none), its outcome and its ctx notes
Run(calls, written, out, notes) ==
    [calls |-> calls, written |-> written, out |-> out, notes |-> notes]

-----------------------------------------------------------------------------
(* Messages.  A stored message part is the API's MessagePart: mimeType (an *)
(* Optional: the key may be missing), filename, body.data (an Optional     *)
(* base64url string), body.size, parts, and on the root the headers.  A    *)
(* composed message is the email.mime object: ctype, headers in the order  *)
(* they were set, the text of a leaf, the children of a multipart.         *)

GPart(mimeType, filename, data, size, parts) ==
    [mimeType |-> mimeType, filename |-> filename, data |-> data, size |-> size,
     parts |-> parts, headers |-> <<>>]

Header(name, value) == [name |-> name, value |-> value]

WithHeaders(part, hs) == [part EXCEPT !.headers = hs]

\* MIMEText(text, subtype)
MIMEText(text, subtype) ==
    [ctype |-> IF subtype = "plain" THEN "text/plain" ELSE "text/html",
     headers |-> <<>>, text |-> text, parts |-> <<>>, filename |-> "", size |-> 0]

\* MIMEMultipart(subtype)
MIMEMultipart(subtype) ==
    [ctype |-> IF subtype = "alternative" THEN "multipart/alternative"
               ELSE "multipart/mixed",
     headers |-> <<>>, text |-> <<>>, parts |-> <<>>, filename |-> "", size |-> 0]

\* message[name] = value: Message.__setitem__ appends a header
SetHeader(m, name, value) == [m EXCEPT !.headers = Append(@, Header(name, value))]

\* message.attach(part)
Attach(m, part) == [m EXCEPT !.parts = Append(@, part)]

\* str.lower() on the header and label names of the model
Lower(n) ==
    CASE n \in {"To", "TO", "to"} -> "to"
      [] n \in {"Subject", "SUBJECT", "subject"} -> "subject"
      [] n \in {"Cc", "CC", "cc"} -> "cc"
      [] n \in {"Bcc", "BCC", "bcc"} -> "bcc"
      [] n \in {"From", "FROM", "from"} -> "from"
      [] n \in {"Date", "DATE", "date"} -> "date"
      [] n \in {"Work", "WORK", "work"} -> "work"
      [] n \in {"Todo", "TODO", "todo"} -> "todo"
      [] n \in {"INBOX", "Inbox", "inbox"} -> "inbox"
      [] n \in {"UNREAD", "Unread", "unread"} -> "unread"
      [] n \in {"High", "HIGH", "high"} -> "high"
      [] n \in {"Low", "LOW", "low"} -> "low"
      [] OTHER -> n

\* base64.urlsafe_b64decode(data).decode('utf-8')
DecodeStrict(data) ==
    LET b == urlsafe_b64decode(data) IN IF b.ok THEN utf8_decode(b.v) ELSE b

\* base64.urlsafe_b64decode(data).decode('utf-8', errors='replace')
DecodeReplace(data) ==
    LET b == urlsafe_b64decode(data) IN IF b.ok THEN utf8_decode_replace(b.v) ELSE b

\* the API's rendering of a text: base64url of its UTF-8 bytes
EncodeText(t) == urlsafe_b64encode(utf8_encode(t))

-----------------------------------------------------------------------------
(* update_email_draft                                                      *)

\* existing_headers = {header['name'].lower(): header['value'] for ...}[key]:
\* a later header of the same name overwrites an earlier one
existing_headers(headers, key) ==
    LET hit == {i \in 1..Len(headers) : Lower(headers[i].name) = key} IN
    IF hit = {} THEN None
    ELSE Some(headers[CHOOSE i \in hit : \A j \in hit : j <= i].value)

\* "x or existing": an empty string is taken for not supplied
FinalHeader_truthy(supplied, headers, key, default) ==
    IF TruthyStr(supplied) THEN supplied
    ELSE IF existing_headers(headers, key) # None THEN existing_headers(headers, key)
    ELSE default

\* x if x is not None else existing_headers.get(key, default)
FinalHeader(supplied, headers, key, default) ==
    IF supplied # None THEN supplied
    ELSE IF existing_headers(headers, key) # None THEN existing_headers(headers, key)
    ELSE default

\* for part in parts: the first text/plain and the first text/html child
\* that carry data, each decoded when it is taken
RECURSIVE ScanParts(_, _, _, _)
ScanParts(parts, i, plain, html) ==
    IF i > Len(parts) THEN Ok([plain |-> plain, html |-> html])
    ELSE LET part == parts[i]
             takeP == plain = None /\ part.mimeType = Some("text/plain")
                      /\ part.data # None
             p1 == IF takeP THEN DecodeStrict(Val(part.data)) ELSE Ok(<<>>)
             takeH == html = None /\ part.mimeType = Some("text/html")
                      /\ part.data # None
             h1 == IF takeH THEN DecodeStrict(Val(part.data)) ELSE Ok(<<>>)
         IN  IF ~p1.ok THEN p1
             ELSE IF ~h1.ok THEN h1
             ELSE ScanParts(parts, i + 1,
                            IF takeP THEN Some(p1.v) ELSE plain,
                            IF takeH THEN Some(h1.v) ELSE html)

\* the leaves of a list of parts, nested multiparts opened, in document order
RECURSIVE LeavesOfParts(_, _)
LeavesOfParts(parts, i) ==
    IF i > Len(parts) THEN <<>>
    ELSE (IF parts[i].parts = <<>> THEN <<parts[i]>> ELSE LeavesOfParts(parts[i].parts, 1))
         \o LeavesOfParts(parts, i + 1)

\* an extraction that walks the whole tree of the existing draft
ExtractExistingBody_deep(payload) ==
    IF payload.parts = <<>> /\ payload.data # None
    THEN LET t == DecodeStrict(Val(payload.data)) IN
         IF payload.mimeType = Some("text/plain")
         THEN IF t.ok THEN Ok([plain |-> Some(t.v), html |-> None]) ELSE t
         ELSE IF payload.mimeType = Some("text/html")
         THEN IF t.ok THEN Ok([plain |-> None, html |-> Some(t.v)]) ELSE t
         ELSE Ok([plain |-> None, html |-> None])
    ELSE ScanParts(LeavesOfParts(payload.parts, 1), 1, None, None)

\* the body of the existing draft, when the request supplies neither body
ExtractExistingBody(payload) ==
    IF payload.parts = <<>> /\ payload.data # None
    THEN LET t == DecodeStrict(Val(payload.data)) IN
         IF payload.mimeType = Some("text/plain")
         THEN IF t.ok THEN Ok([plain |-> Some(t.v), html |-> None]) ELSE t
         ELSE IF payload.mimeType = Some("text/html")
         THEN IF t.ok THEN Ok([plain |-> None, html |-> Some(t.v)]) ELSE t
         ELSE Ok([plain |-> None, html |-> None])
    ELSE ScanParts(payload.parts, 1, None, None)

\* the new bodies replace the old ones and nothing is read from the draft
ResolveBodies_replace(payload, body, html_body) ==
    Ok([plain |-> IF body = None /\ html_body = None THEN Some(<<>>) ELSE body,
        html |-> html_body])

\* final_plain_body, final_html_body
ResolveBodies(payload, body, html_body) ==
    IF body = None /\ html_body = None
    THEN LET e == ExtractExistingBody(payload) IN
         IF ~e.ok THEN e
         ELSE Ok([plain |-> IF e.v.plain = None THEN Some(<<>>) ELSE e.v.plain,
                  html |-> e.v.html])
    ELSE Ok([plain |-> body, html |-> html_body])

\* a composition that wraps every body in a multipart/alternative
ComposeDraftBody_wrapped(plain, html) ==
    IF TruthyText(html)
    THEN Some(Attach(Attach(MIMEMultipart("alternative"),
                            MIMEText(IF TruthyText(plain) THEN Val(plain) ELSE <<>>,
                                     "plain")),
                     MIMEText(Val(html), "html")))
    ELSE IF plain # None
    THEN Some(Attach(MIMEMultipart("alternative"), MIMEText(Val(plain), "plain")))
    ELSE None

\* new_mime_message, or None when neither body can be used
ComposeDraftBody(plain, html) ==
    IF TruthyText(html)
    THEN Some(Attach(Attach(MIMEMultipart("alternative"),
                            MIMEText(IF TruthyText(plain) THEN Val(plain) ELSE <<>>,
                                     "plain")),
                     MIMEText(Val(html), "html")))
    ELSE IF plain # None THEN Some(MIMEText(Val(plain), "plain"))
    ELSE None

\* To, Subject, and Cc and Bcc when they are truthy
SetDraftHeaders(m, to, subject, cc, bcc) ==
    LET m1 == SetHeader(SetHeader(m, "To", to), "Subject", subject)
        m2 == IF TruthyStr(cc) THEN SetHeader(m1, "Cc", Val(cc)) ELSE m1
    IN  IF TruthyStr(bcc) THEN SetHeader(m2, "Bcc", Val(bcc)) ELSE m2

\* the try block from the final headers on.  hs are the headers of the
\* existing draft, bodies the outcome of resolving the final bodies, c2 the
\* transport calls made so far.
UpdateDraftCompose(draft_id, req, hs, bodies, c2, addr, o) ==
    IF ~bodies.ok THEN Run(c2, None, bodies, <<>>)
    ELSE
    LET final_to == Val(FinalHeader(req.to, hs, "to", Some("")))
        final_subject == Val(FinalHeader(req.subject, hs, "subject", Some("")))
        final_cc == FinalHeader(req.cc, hs, "cc", None)
        final_bcc == FinalHeader(req.bcc, hs, "bcc", None)
        new_mime_message == ComposeDraftBody(bodies.v.plain, bodies.v.html)
    IN
    IF new_mime_message = None
    THEN Run(c2, None, Ok(Result("error", "validation", "")), <<>>)
    ELSE
    LET c3 == Append(c2, Call("get_profile", "-", o.get_profile))
        prof == get_profile(o.get_profile, addr)
    IN
    IF ~prof.ok THEN Run(c3, None, prof, <<>>)
    ELSE IF prof.v = None THEN Run(c3, None, Raises("AttributeError"), <<>>)
    ELSE
    LET message == SetHeader(SetDraftHeaders(Val(new_mime_message), final_to,
                                             final_subject, final_cc, final_bcc),
                             "From", Val(prof.v))
        c4 == Append(c3, Call("update_draft", draft_id, o.update_draft))
        updated == update_draft(o.update_draft, draft_id)
    IN
    IF ~updated.ok THEN Run(c4, Some(message), updated, <<>>)
    ELSE Run(c4, Some(message), Ok(Result("success", "updated", updated.v)), <<>>)

\* the body of update_email_draft's try block.  draft is drafts[draft_id],
\* addr the account's address, o the outcome of each transport call.
\* the files of a stored draft, as parts of a composed message
RECURSIVE FileParts(_, _)
FileParts(parts, i) ==
    IF i > Len(parts) THEN <<>>
    ELSE (IF parts[i].filename # ""
          THEN <<[ctype |-> "application/octet-stream", headers |-> <<>>, text |-> <<>>,
                  parts |-> <<>>, filename |-> parts[i].filename, size |-> parts[i].size]>>
          ELSE FileParts(parts[i].parts, 1))
         \o FileParts(parts, i + 1)

\* a run whose written message also carries the files of the existing draft
Carry(r, payload) ==
    IF r.written = None THEN r
    ELSE [r EXCEPT !.written =
             Some([Val(r.written) EXCEPT !.parts = @ \o FileParts(payload.parts, 1)])]

\* an update that carries the attachments of the existing draft over
UpdateDraftBody_carry(draft_id, req, draft, addr, o) ==
    LET c1 == <<Call("service", "-", o.service)>>
        og == Transport(o.get_draft, draft # None)
        c2 == Append(c1, CallR("get_draft", draft_id, og, draft))
        draft_data == get_draft(og, draft)
    IN
    IF o.service # "ok" THEN Run(c1, None, Raises(ExcOf(o.service)), <<>>)
    ELSE IF ~draft_data.ok THEN Run(c2, None, draft_data, <<>>)
    ELSE IF draft_data.v = None
    THEN Run(c2, None, Ok(Result("not_found", "draft", draft_id)), <<>>)
    ELSE Carry(UpdateDraftCompose(draft_id, req, Val(draft_data.v).headers,
                                  ResolveBodies(Val(draft_data.v), req.body, req.html_body),
                                  c2, addr, o),
               Val(draft_data.v))

UpdateDraftBody(draft_id, req, draft, addr, o) ==
    LET c1 == <<Call("service", "-", o.service)>>
        og == Transport(o.get_draft, draft # None)
        c2 == Append(c1, CallR("get_draft", draft_id, og, draft))
        draft_data == get_draft(og, draft)
    IN
    IF o.service # "ok" THEN Run(c1, None, Raises(ExcOf(o.service)), <<>>)
    ELSE IF ~draft_data.ok THEN Run(c2, None, draft_data, <<>>)
    ELSE IF draft_data.v = None
    THEN Run(c2, None, Ok(Result("not_found", "draft", draft_id)), <<>>)
    ELSE UpdateDraftCompose(draft_id, req, Val(draft_data.v).headers,
                            ResolveBodies(Val(draft_data.v), req.body, req.html_body),
                            c2, addr, o)

\* what the except clauses of a tool make of the outcome of its try block
Handled(r, classes) == [r EXCEPT !.out = Ok(TryExcept(r.out, classes))]

\* except HttpError ... except Exception ...: both return an error string
UpdateDraftRun(draft_id, req, draft, addr, o) ==
    Handled(UpdateDraftBody(draft_id, req, draft, addr, o), <<"HttpError", "Exception">>)

-----------------------------------------------------------------------------
(* send_email, send_email_with_attachment,                                  *)
(* send_email_with_multiple_attachments, create_email_draft                 *)

\* a lookup that goes on with an empty address when the profile call failed
LookupFrom_anyway(o, addr) ==
    LET c1 == <<Call("service", "-", o.service)>>
        c2 == Append(c1, Call("get_profile", "-", o.get_profile))
        p == get_profile(o.get_profile, addr)
    IN  IF o.service # "ok" THEN [calls |-> c1, out |-> Raises(ExcOf(o.service))]
        ELSE IF ~p.ok \/ p.v = None THEN [calls |-> c2, out |-> Ok("")]
        ELSE [calls |-> c2, out |-> Ok(Val(p.v))]

\* service = get_gmail_service(); profile = get_profile(service);
\* from_email = profile.get('emailAddress', ''): a None profile has no get
LookupFrom(o, addr) ==
    LET c1 == <<Call("service", "-", o.service)>>
        c2 == Append(c1, Call("get_profile", "-", o.get_profile))
        p == get_profile(o.get_profile, addr)
    IN  IF o.service # "ok" THEN [calls |-> c1, out |-> Raises(ExcOf(o.service))]
        ELSE IF ~p.ok THEN [calls |-> c2, out |-> p]
        ELSE IF p.v = None THEN [calls |-> c2, out |-> Raises("AttributeError")]
        ELSE [calls |-> c2, out |-> Ok(Val(p.v))]

\* message['To'], ['Subject'], ['From'], and ['Cc'], ['Bcc'] when truthy
SetEnvelope(m, to, subject, from_email, cc, bcc) ==
    LET m1 == SetHeader(SetHeader(SetHeader(m, "To", to), "Subject", subject),
                        "From", from_email)
        m2 == IF TruthyStr(cc) THEN SetHeader(m1, "Cc", Val(cc)) ELSE m1
    IN  IF TruthyStr(bcc) THEN SetHeader(m2, "Bcc", Val(bcc)) ELSE m2

\* a comparison of the importance string that keeps its letter case
SetImportance_exact(m, importance) ==
    IF ~TruthyStr(importance) THEN m
    ELSE CASE Val(importance) = "high" ->
                 SetHeader(SetHeader(m, "Importance", "high"), "X-Priority", "1")
           [] Val(importance) = "low" ->
                 SetHeader(SetHeader(m, "Importance", "low"), "X-Priority", "5")
           [] OTHER -> m

\* if importance: high -> Importance: high, X-Priority: 1; low -> low, 5
SetImportance(m, importance) ==
    IF ~TruthyStr(importance) THEN m
    ELSE CASE Lower(Val(importance)) = "high" ->
                 SetHeader(SetHeader(m, "Importance", "high"), "X-Priority", "1")
           [] Lower(Val(importance)) = "low" ->
                 SetHeader(SetHeader(m, "Importance", "low"), "X-Priority", "5")
           [] OTHER -> m

\* an HTML leaf for every html_body that is given, the empty one included
AttachBodies_given(m, body, html_body) ==
    LET m1 == Attach(m, MIMEText(body, "plain")) IN
    IF html_body # None THEN Attach(m1, MIMEText(Val(html_body), "html")) ELSE m1

\* attach(MIMEText(body, 'plain')), and the HTML version when it is truthy
AttachBodies(m, body, html_body) ==
    LET m1 == Attach(m, MIMEText(body, "plain")) IN
    IF TruthyText(html_body) THEN Attach(m1, MIMEText(Val(html_body), "html")) ELSE m1

\* os.path.basename on the paths of the model
Basename(path) ==
    CASE path = "/t/a.pdf" -> "a.pdf"
      [] path = "/u/a.pdf" -> "a.pdf"
      [] OTHER -> path

\* os.path.isfile(path)
IsFile(fs, path) == fs[path] \in {"file", "locked"}

\* open(path, 'rb').read(): a file the process may not read raises
Readable(fs, path) == fs[path] = "file"

\* MIMEApplication(file.read(), Name=filename) with its Content-Disposition
MIMEApplication(filename) ==
    [ctype |-> "application/octet-stream",
     headers |-> <<Header("Content-Disposition", filename)>>,
     text |-> <<>>, parts |-> <<>>, filename |-> filename, size |-> 1]

\* encode the message, send_message, the success string
SendComposed(calls, message, osend, detail, info, notes) ==
    LET c == Append(calls, Call("send_message", "-", osend))
        sent == send_message(osend, "sent1")
    IN  Run(c, Some(message),
            IF sent.ok THEN Ok(ResultI("success", detail, sent.v, info)) ELSE sent,
            notes)

SendEmailBody(req, addr, o) ==
    LET f == LookupFrom(o, addr) IN
    IF ~f.out.ok THEN Run(f.calls, None, f.out, <<>>)
    ELSE LET message ==
                 AttachBodies(
                     SetImportance(
                         SetEnvelope(MIMEMultipart("alternative"), req.to, req.subject,
                                     f.out.v, req.cc, req.bcc),
                         req.importance),
                     req.body, req.html_body)
         IN  SendComposed(f.calls, message, o.send_message, "sent",
                          <<req.to, req.subject>>, <<>>)

SendEmailRun(req, addr, o) == Handled(SendEmailBody(req, addr, o), <<"Exception">>)

\* message (mixed) with msgAlternative as its first child
MixedWithBodies(req, from_email) ==
    Attach(SetEnvelope(MIMEMultipart("mixed"), req.to, req.subject, from_email,
                       req.cc, req.bcc),
           AttachBodies(MIMEMultipart("alternative"), req.body, req.html_body))

SendWithAttachmentBody(req, fs, addr, o) ==
    LET f == LookupFrom(o, addr) IN
    IF ~f.out.ok THEN Run(f.calls, None, f.out, <<>>)
    ELSE IF ~IsFile(fs, req.attachment_path)
    THEN Run(f.calls, None,
             Ok(ResultI("error", "attachment_not_found", "", <<req.attachment_path>>)),
             <<>>)
    ELSE IF ~Readable(fs, req.attachment_path)
    THEN Run(f.calls, None, Raises("PermissionError"), <<>>)
    ELSE LET filename == Basename(req.attachment_path)
             message == Attach(MixedWithBodies(req, f.out.v), MIMEApplication(filename))
         IN  SendComposed(f.calls, message, o.send_message, "sent_with_attachment",
                          <<filename>>, <<>>)

SendWithAttachmentRun(req, fs, addr, o) ==
    Handled(SendWithAttachmentBody(req, fs, addr, o), <<"Exception">>)

\* a loop that ends at the first path that is not a file
AttachFiles_stop(paths, i, fs, message, attached_files, missing_files) ==
    LET n == IF \E k \in 1..Len(paths) : ~IsFile(fs, paths[k])
             THEN CHOOSE k \in 1..Len(paths) :
                      /\ ~IsFile(fs, paths[k])
                      /\ \A j \in 1..(k - 1) : IsFile(fs, paths[j])
             ELSE Len(paths) + 1
        taken == SubSeq(paths, 1, n - 1)
    IN  IF \E k \in 1..Len(taken) : ~Readable(fs, taken[k]) THEN Raises("PermissionError")
        ELSE Ok([message |-> [message EXCEPT !.parts =
                                 @ \o [k \in 1..Len(taken) |-> MIMEApplication(Basename(taken[k]))]],
                 attached_files |-> [k \in 1..Len(taken) |-> Basename(taken[k])],
                 missing_files |-> IF n <= Len(paths) THEN <<paths[n]>> ELSE <<>>])

\* for attachment_path in attachment_paths: attach it or note it missing
RECURSIVE AttachFiles(_, _, _, _, _, _)
AttachFiles(paths, i, fs, message, attached_files, missing_files) ==
    IF i > Len(paths)
    THEN Ok([message |-> message, attached_files |-> attached_files,
             missing_files |-> missing_files])
    ELSE IF ~IsFile(fs, paths[i])
    THEN AttachFiles(paths, i + 1, fs, message, attached_files,
                     Append(missing_files, paths[i]))
    ELSE IF ~Readable(fs, paths[i]) THEN Raises("PermissionError")
    ELSE AttachFiles(paths, i + 1, fs,
                     Attach(message, MIMEApplication(Basename(paths[i]))),
                     Append(attached_files, Basename(paths[i])), missing_files)

\* ctx.warning(warning_msg): the one ctx message the model keeps
Warning(ctx, missing_files) ==
    IF ctx /\ missing_files # <<>>
    THEN <<[level |-> "warning", paths |-> missing_files]>>
    ELSE <<>>

\* a guard that never stops the send
NothingAttached_never(missing_files, attached_files) == FALSE

\* if missing_files: ... if not attached_files: return the error
NothingAttached(missing_files, attached_files) ==
    missing_files # <<>> /\ attached_files = <<>>

SendWithAttachmentsBody(req, fs, addr, o) ==
    LET f == LookupFrom(o, addr) IN
    IF ~f.out.ok THEN Run(f.calls, None, f.out, <<>>)
    ELSE LET a == AttachFiles(req.attachment_paths, 1, fs,
                              MixedWithBodies(req, f.out.v), <<>>, <<>>)
         IN
         IF ~a.ok THEN Run(f.calls, None, a, <<>>)
         ELSE IF NothingAttached(a.v.missing_files, a.v.attached_files)
         THEN Run(f.calls, None, Ok(Result("error", "no_attachment_found", "")),
                  Warning(req.ctx, a.v.missing_files))
         ELSE SendComposed(f.calls, a.v.message, o.send_message,
                           "sent_with_attachments", a.v.attached_files,
                           Warning(req.ctx, a.v.missing_files))

SendWithAttachmentsRun(req, fs, addr, o) ==
    Handled(SendWithAttachmentsBody(req, fs, addr, o), <<"Exception">>)

CreateDraftBody(req, new_id, addr, o) ==
    LET f == LookupFrom(o, addr) IN
    IF ~f.out.ok THEN Run(f.calls, None, f.out, <<>>)
    ELSE LET message ==
                 AttachBodies(SetEnvelope(MIMEMultipart("alternative"), req.to,
                                          req.subject, f.out.v, req.cc, req.bcc),
                              req.body, req.html_body)
             c == Append(f.calls, Call("create_draft", new_id, o.create_draft))
             made == create_draft(o.create_draft, new_id)
         IN  Run(c, Some(message),
                 IF made.ok
                 THEN Ok(ResultI("success", "draft_created", made.v,
                                 <<req.to, req.subject>>))
                 ELSE made,
                 <<>>)

CreateDraftRun(req, new_id, addr, o) ==
    Handled(CreateDraftBody(req, new_id, addr, o), <<"Exception">>)

-----------------------------------------------------------------------------
(* read_email                                                              *)

\* next((h['value'] for h in headers if h['name'].lower() == key), default)
FirstHeader(headers, key, default) ==
    LET hit == {i \in 1..Len(headers) : Lower(headers[i].name) = key} IN
    IF hit = {} THEN default
    ELSE headers[CHOOSE i \in hit : \A j \in hit : i <= j].value

\* datetime.strptime(date, "%a, %d %b %Y %H:%M:%S %z").strftime("%Y-%m-%d %H:%M")
\* on the dates of the model; any other string does not parse and is kept
FormatDate(date) ==
    CASE date = "Mon, 02 Nov 2026 10:05:00 +0000" -> "2026-11-02 10:05"
      [] date = "Sun, 01 Nov 2026 23:59:59 +0100" -> "2026-11-01 23:59"
      [] OTHER -> date

\* email.header.decode_header on the subjects of the model: an RFC 2047
\* encoded word is decoded, anything else is kept
DecodeSubject(subject) ==
    CASE subject = "=?utf-8?b?UzI=?=" -> "S2"
      [] subject = "=?utf-8?q?S?=" -> "S"
      [] OTHER -> subject

\* the size of an attachment in tenths of the unit, as '.1f' prints it:
\* to the nearest tenth, a tie to the even one (size / unit is exact)
Tenths(size, unit) ==
    LET q == (size * 10) \div unit
        r == (size * 10) % unit
    IN  IF (2 * r) > unit \/ ((2 * r) = unit /\ (q % 2) = 1) THEN q + 1 ELSE q

\* size_str
SizeStr(size) ==
    IF size > (1024 * 1024) THEN [unit |-> "MB", tenths |-> Tenths(size, 1024 * 1024)]
    ELSE IF size > 1024 THEN [unit |-> "KB", tenths |-> Tenths(size, 1024)]
    ELSE [unit |-> "bytes", tenths |-> size * 10]

Fragment(mime_type, text) == [mime_type |-> mime_type, text |-> text]

\* get_body_and_attachments(payload, attachments): the (mime_type, text)
\* fragments of the tree and the attachments list
RECURSIVE get_body_and_attachments(_, _, _)
RECURSIVE WalkParts(_, _, _, _, _)

\* a walk that visits the children from the last to the first
RECURSIVE WalkParts_reversed(_, _, _, _, _)
WalkParts_reversed(parts, i, include_attachments, all_parts, attachments) ==
    IF i > Len(parts) THEN Ok([parts |-> all_parts, attachments |-> attachments])
    ELSE LET r == get_body_and_attachments(parts[Len(parts) + 1 - i],
                                           include_attachments, attachments) IN
         IF ~r.ok THEN r
         ELSE WalkParts_reversed(parts, i + 1, include_attachments,
                                 all_parts \o r.v.parts, r.v.attachments)

WalkParts(parts, i, include_attachments, all_parts, attachments) ==
    IF i > Len(parts) THEN Ok([parts |-> all_parts, attachments |-> attachments])
    ELSE LET r == get_body_and_attachments(parts[i], include_attachments, attachments) IN
         IF ~r.ok THEN r
         ELSE WalkParts(parts, i + 1, include_attachments,
                        all_parts \o r.v.parts, r.v.attachments)

get_body_and_attachments(payload, include_attachments, attachments) ==
    IF TruthyText(payload.data)
    THEN LET mime_type == IF payload.mimeType = None THEN "text/plain"
                          ELSE Val(payload.mimeType)
             decoded_data == DecodeReplace(Val(payload.data))
         IN  IF ~decoded_data.ok THEN decoded_data
             ELSE Ok([parts |-> <<Fragment(mime_type, decoded_data.v)>>,
                      attachments |-> attachments])
    ELSE IF payload.filename # ""
    THEN LET mime_type == IF payload.mimeType = None THEN "application/octet-stream"
                          ELSE Val(payload.mimeType)
         IN  Ok([parts |-> <<>>,
                 attachments |->
                     IF include_attachments
                     THEN Append(attachments,
                                 [filename |-> payload.filename, mimeType |-> mime_type,
                                  size |-> SizeStr(payload.size)])
                     ELSE attachments])
    ELSE WalkParts(payload.parts, 1, include_attachments, <<>>, attachments)

\* the characters the regular expressions of the HTML reduction name
Chr(c) ==
    CASE c = "<" -> 60 [] c = ">" -> 62 [] c = "/" -> 47 [] c = "&" -> 38
      [] c = ";" -> 59 [] c = " " -> 32 [] c = "\n" -> 10
      [] c = "a" -> 97 [] c = "b" -> 98 [] c = "d" -> 100 [] c = "g" -> 103
      [] c = "h" -> 104 [] c = "i" -> 105 [] c = "l" -> 108 [] c = "m" -> 109
      [] c = "n" -> 110 [] c = "p" -> 112 [] c = "r" -> 114 [] c = "s" -> 115
      [] c = "t" -> 116 [] c = "v" -> 118

\* \s and \d
IsSpace(c) == c \in {9, 10, 11, 12, 13, 32}

IsDigit(c) == c >= 48 /\ c <= 57

At(t, i) == IF i <= Len(t) THEN t[i] ELSE 0 - 1

StartsAt(t, i, w) == i + Len(w) - 1 <= Len(t) /\ SubSeq(t, i, i + Len(w) - 1) = w

RECURSIVE SkipSpace(_, _)
SkipSpace(t, i) == IF i <= Len(t) /\ IsSpace(t[i]) THEN SkipSpace(t, i + 1) ELSE i

\* the length of the match of <br\s*/?>|</(p|div|h\d)> at i, 0 when none
BreakAt(t, i) ==
    IF StartsAt(t, i, <<Chr("<"), Chr("b"), Chr("r")>>)
    THEN LET j == SkipSpace(t, i + 3)
             k == IF At(t, j) = Chr("/") THEN j + 1 ELSE j
         IN  IF At(t, k) = Chr(">") THEN k + 1 - i
             \* \s* gives back nothing that helps: no space is '/' or '>'
             ELSE 0
    ELSE IF StartsAt(t, i, <<Chr("<"), Chr("/"), Chr("p"), Chr(">")>>) THEN 4
    ELSE IF StartsAt(t, i, <<Chr("<"), Chr("/"), Chr("d"), Chr("i"), Chr("v"), Chr(">")>>)
    THEN 6
    ELSE IF /\ StartsAt(t, i, <<Chr("<"), Chr("/"), Chr("h")>>)
            /\ IsDigit(At(t, i + 3)) /\ At(t, i + 4) = Chr(">")
    THEN 5
    ELSE 0

\* the length of the match of <.*?> at i, 0 when none: up to the nearest
\* '>' with no newline before it
RECURSIVE TagEnd(_, _)
TagEnd(t, j) ==
    IF j > Len(t) \/ t[j] = Chr("\n") THEN 0
    ELSE IF t[j] = Chr(">") THEN j
    ELSE TagEnd(t, j + 1)

TagAt(t, i) ==
    IF At(t, i) = Chr("<") /\ TagEnd(t, i + 1) > 0 THEN TagEnd(t, i + 1) + 1 - i ELSE 0

\* re.sub of a pattern given by its match length at each position
RECURSIVE SubBreaks(_, _)
SubBreaks(t, i) ==
    IF i > Len(t) THEN <<>>
    ELSE IF BreakAt(t, i) > 0 THEN <<Chr("\n")>> \o SubBreaks(t, i + BreakAt(t, i))
    ELSE <<t[i]>> \o SubBreaks(t, i + 1)

RECURSIVE SubTags(_, _)
SubTags(t, i) ==
    IF i > Len(t) THEN <<>>
    ELSE IF TagAt(t, i) > 0 THEN SubTags(t, i + TagAt(t, i))
    ELSE <<t[i]>> \o SubTags(t, i + 1)

\* re.sub(word, rep, t) for a literal word
RECURSIVE SubWord(_, _, _, _)
SubWord(t, i, w, rep) ==
    IF i > Len(t) THEN <<>>
    ELSE IF StartsAt(t, i, w) THEN rep \o SubWord(t, i + Len(w), w, rep)
    ELSE <<t[i]>> \o SubWord(t, i + 1, w, rep)

\* the "very simple HTML to text conversion"
HtmlToText(html) ==
    LET b1 == SubBreaks(html, 1)
        b2 == SubTags(b1, 1)
        b3 == SubWord(b2, 1, <<Chr("&"), Chr("n"), Chr("b"), Chr("s"), Chr("p"), Chr(";")>>,
                      <<Chr(" ")>>)
        b4 == SubWord(b3, 1, <<Chr("&"), Chr("l"), Chr("t"), Chr(";")>>, <<Chr("<")>>)
        b5 == SubWord(b4, 1, <<Chr("&"), Chr("g"), Chr("t"), Chr(";")>>, <<Chr(">")>>)
    IN  SubWord(b5, 1, <<Chr("&"), Chr("a"), Chr("m"), Chr("p"), Chr(";")>>, <<Chr("&")>>)

\* "\n".join(texts)
RECURSIVE JoinLines(_)
JoinLines(texts) ==
    IF texts = <<>> THEN <<>>
    ELSE IF Len(texts) = 1 THEN texts[1]
    ELSE texts[1] \o <<Chr("\n")>> \o JoinLines(Tail(texts))

\* the body of the result: a text, or the fixed placeholder
Placeholder == [kind |-> "placeholder", text |-> <<>>]

BodyText(t) == [kind |-> "text", text |-> t]

\* a resolution that prefers the HTML fragments
ResolveBody_html(parts) ==
    LET plain == SelectSeq(parts, LAMBDA f : f.mime_type = "text/plain")
        html == SelectSeq(parts, LAMBDA f : f.mime_type = "text/html")
    IN  IF html # <<>> THEN BodyText(HtmlToText(html[1].text))
        ELSE IF plain # <<>> THEN BodyText(JoinLines([k \in 1..Len(plain) |-> plain[k].text]))
        ELSE Placeholder

\* plain_text_parts, html_parts and the choice between them
ResolveBody(parts) ==
    LET plain == SelectSeq(parts, LAMBDA f : f.mime_type = "text/plain")
        html == SelectSeq(parts, LAMBDA f : f.mime_type = "text/html")
    IN  IF plain # <<>> THEN BodyText(JoinLines([k \in 1..Len(plain) |-> plain[k].text]))
        ELSE IF html # <<>> THEN BodyText(HtmlToText(html[1].text))
        ELSE Placeholder

\* the body of read_email's try block.  msg is the stored message, None when
\* there is none of that id.
ReadEmailBody(message_id, include_attachments, msg, o) ==
    LET c1 == <<Call("service", "-", o.service)>>
        og == Transport(o.get_message, msg # None)
        c2 == Append(c1, CallR("get_message", message_id, og, msg))
    IN
    IF o.service # "ok" THEN Run(c1, None, Raises(ExcOf(o.service)), <<>>)
    ELSE IF og # "ok" THEN Run(c2, None, Raises(ExcOf(og)), <<>>)
    ELSE
    LET m == get_message(og, Val(msg)).v
        headers == m.payload.headers
        walked == get_body_and_attachments(m.payload, include_attachments, <<>>)
    IN
    IF ~walked.ok THEN Run(c2, None, walked, <<>>)
    ELSE Run(c2, None,
             Ok(ResultI("success", "email", message_id,
                        [subject |-> DecodeSubject(FirstHeader(headers, "subject", "No Subject")),
                         sender |-> FirstHeader(headers, "from", "Unknown Sender"),
                         recipient |-> FirstHeader(headers, "to", "Unknown Recipient"),
                         date |-> FormatDate(FirstHeader(headers, "date", "Unknown Date")),
                         cc |-> LET cc == FirstHeader(headers, "cc", "") IN
                                IF cc = "" THEN None ELSE Some(cc),
                         labels |-> IF m.labelIds = None THEN {} ELSE Val(m.labelIds),
                         body |-> ResolveBody(walked.v.parts),
                         attachments |-> IF include_attachments THEN walked.v.attachments
                                         ELSE <<>>])),
             <<>>)

ReadEmailRun(message_id, include_attachments, msg, o) ==
    Handled(ReadEmailBody(message_id, include_attachments, msg, o), <<"Exception">>)

-----------------------------------------------------------------------------
(* The label and message tools                                              *)

\* the try block ends with an exception / with a return
Fails(calls, exc) == Run(calls, None, Raises(exc), <<>>)

Returns(calls, result) == Run(calls, None, Ok(result), <<>>)

\* for label in labels: if label['name'].lower() == name.lower(): ... break
FindLabel(ls, name) ==
    LET hit == {i \in 1..Len(ls) : Lower(ls[i].name) = Lower(name)} IN
    IF hit = {} THEN None ELSE Some(ls[CHOOSE i \in hit : \A j \in hit : i <= j])

\* the id the API gives a new label: the first of the pool no label has
LabelIdPool == <<"Label_2", "Label_3", "Label_4">>

FreeLabelIds(ls) ==
    {i \in 1..Len(LabelIdPool) : \A k \in 1..Len(ls) : ls[k].id # LabelIdPool[i]}

NewLabelId(ls) ==
    IF FreeLabelIds(ls) = {} THEN "Label_0"
    ELSE LabelIdPool[CHOOSE i \in FreeLabelIds(ls) : \A j \in FreeLabelIds(ls) : i <= j]

\* labels.create: the account holds no more labels than the pool allows
CreateOutcome(o, ls) == Transport(o, FreeLabelIds(ls) # {})

\* a fetch whose failure is ignored when the message exists
FetchMessage_unchecked(message_id, msg, o) ==
    LET c1 == <<Call("service", "-", o.service)>>
        og == Transport(o.get_message, msg # None)
        c2 == Append(c1, CallR("get_message", message_id, og, msg))
    IN  IF o.service # "ok"
        THEN [found |-> FALSE, run |-> Fails(c1, ExcOf(o.service))]
        ELSE IF msg = None
        THEN [found |-> FALSE,
              run |-> Returns(c2, Result("not_found", "message", message_id))]
        ELSE [found |-> TRUE, run |-> Returns(c2, Result("none", "", ""))]

\* service = get_gmail_service(); try: msg = get_message(...) except
\* Exception: return "... not found."   found says that the tool goes on
FetchMessage(message_id, msg, o) ==
    LET c1 == <<Call("service", "-", o.service)>>
        og == Transport(o.get_message, msg # None)
        c2 == Append(c1, CallR("get_message", message_id, og, msg))
        got == get_message(og, msg)
    IN  IF o.service # "ok"
        THEN [found |-> FALSE, run |-> Fails(c1, ExcOf(o.service))]
        ELSE IF ~got.ok
        THEN [found |-> FALSE,
              run |-> Returns(c2, Result("not_found", "message", message_id))]
        ELSE [found |-> TRUE, run |-> Returns(c2, Result("none", "", ""))]

LabelEmailBody(message_id, label_name, msg, ls, o) ==
    LET f == FetchMessage(message_id, msg, o) IN
    IF ~f.found THEN f.run
    ELSE
    LET c3 == Append(f.run.calls, Call("get_labels", "-", o.get_labels))
        listed == get_labels(o.get_labels, ls)
    IN
    IF ~listed.ok THEN Fails(c3, listed.exc)
    ELSE
    LET found == FindLabel(listed.v, label_name)
        oc == CreateOutcome(o.create_label, ls)
        c4 == IF found # None THEN c3
              ELSE Append(c3, CallM("create_label", label_name, oc, {NewLabelId(ls)}, {}))
        new_label == create_label(oc, NewLabelId(ls))
    IN
    IF found = None /\ ~new_label.ok THEN Fails(c4, new_label.exc)
    ELSE
    LET label_id == IF found # None THEN Val(found).id ELSE new_label.v
        c5 == Append(c4, CallM("apply_label", message_id, o.apply_label, {label_id}, {}))
        applied == apply_label(o.apply_label)
    IN  IF ~applied.ok THEN Fails(c5, applied.exc)
        ELSE Returns(c5, ResultI("success", "label_applied", message_id, <<label_name>>))

LabelEmailRun(message_id, label_name, msg, ls, o) ==
    Handled(LabelEmailBody(message_id, label_name, msg, ls, o), <<"Exception">>)

RemoveEmailLabelBody(message_id, label_name, msg, ls, o) ==
    LET f == FetchMessage(message_id, msg, o) IN
    IF ~f.found THEN f.run
    ELSE
    LET c3 == Append(f.run.calls, Call("get_labels", "-", o.get_labels))
        listed == get_labels(o.get_labels, ls)
    IN
    IF ~listed.ok THEN Fails(c3, listed.exc)
    ELSE
    LET found == FindLabel(listed.v, label_name) IN
    IF found = None THEN Returns(c3, ResultI("not_found", "label", "", <<label_name>>))
    ELSE IF Val(msg).labelIds = None \/ Val(found).id \notin Val(Val(msg).labelIds)
    THEN Returns(c3, ResultI("noop", "label_absent", message_id, <<label_name>>))
    ELSE
    LET c4 == Append(c3, CallM("remove_label", message_id, o.remove_label, {},
                               {Val(found).id}))
        removed == remove_label(o.remove_label)
    IN  IF ~removed.ok THEN Fails(c4, removed.exc)
        ELSE Returns(c4, ResultI("success", "label_removed", message_id, <<label_name>>))

RemoveEmailLabelRun(message_id, label_name, msg, ls, o) ==
    Handled(RemoveEmailLabelBody(message_id, label_name, msg, ls, o), <<"Exception">>)

MarkAsReadBody(message_id, msg, o) ==
    LET f == FetchMessage(message_id, msg, o) IN
    IF ~f.found THEN f.run
    ELSE IF Val(msg).labelIds # None /\ "UNREAD" \notin Val(Val(msg).labelIds)
    THEN Returns(f.run.calls, Result("noop", "already_read", message_id))
    ELSE
    LET c3 == Append(f.run.calls,
                     CallM("modify_message", message_id, o.modify_message, {}, {"UNREAD"}))
        modified == modify_message(o.modify_message)
    IN  IF ~modified.ok THEN Fails(c3, modified.exc)
        ELSE Returns(c3, Result("success", "marked_read", message_id))

MarkAsReadRun(message_id, msg, o) ==
    Handled(MarkAsReadBody(message_id, msg, o), <<"Exception">>)

MarkAsUnreadBody(message_id, msg, o) ==
    LET f == FetchMessage(message_id, msg, o) IN
    IF ~f.found THEN f.run
    ELSE IF Val(msg).labelIds # None /\ "UNREAD" \in Val(Val(msg).labelIds)
    THEN Returns(f.run.calls, Result("noop", "already_unread", message_id))
    ELSE
    LET c3 == Append(f.run.calls,
                     CallM("modify_message", message_id, o.modify_message, {"UNREAD"}, {}))
        modified == modify_message(o.modify_message)
    IN  IF ~modified.ok THEN Fails(c3, modified.exc)
        ELSE Returns(c3, Result("success", "marked_unread", message_id))

MarkAsUnreadRun(message_id, msg, o) ==
    Handled(MarkAsUnreadBody(message_id, msg, o), <<"Exception">>)

DeleteEmailBody(message_id, msg, o) ==
    LET f == FetchMessage(message_id, msg, o) IN
    IF ~f.found THEN f.run
    ELSE
    LET c3 == Append(f.run.calls, Call("delete_message", message_id, o.delete_message))
        deleted == delete_message(o.delete_message)
    IN  IF ~deleted.ok THEN Fails(c3, deleted.exc)
        ELSE Returns(c3, Result("success", "trashed", message_id))

DeleteEmailRun(message_id, msg, o) ==
    Handled(DeleteEmailBody(message_id, msg, o), <<"Exception">>)

\* service = get_gmail_service(); labels = get_labels(service)
ListLabels(ls, o) ==
    LET c1 == <<Call("service", "-", o.service)>>
        c2 == Append(c1, Call("get_labels", "-", o.get_labels))
        listed == get_labels(o.get_labels, ls)
    IN  IF o.service # "ok" THEN [calls |-> c1, out |-> Raises(ExcOf(o.service))]
        ELSE [calls |-> c2, out |-> listed]

GetEmailLabelsBody(ls, o) ==
    LET l == ListLabels(ls, o) IN
    IF ~l.out.ok THEN Fails(l.calls, l.out.exc)
    ELSE IF l.out.v = <<>> THEN Returns(l.calls, Result("empty", "labels", ""))
    ELSE Returns(l.calls,
                 ResultI("success", "labels", "",
                         [system_labels |-> SelectSeq(l.out.v, LAMBDA x : x.type = "system"),
                          user_labels |-> SelectSeq(l.out.v, LAMBDA x : x.type = "user")]))

GetEmailLabelsRun(ls, o) == Handled(GetEmailLabelsBody(ls, o), <<"Exception">>)

CreateEmailLabelBody(name, ls, o) ==
    LET l == ListLabels(ls, o) IN
    IF ~l.out.ok THEN Fails(l.calls, l.out.exc)
    ELSE
    LET found == FindLabel(l.out.v, name) IN
    IF found # None
    THEN Returns(l.calls, ResultI("exists", "label", Val(found).id, <<name>>))
    ELSE
    LET oc == CreateOutcome(o.create_label, ls)
        c3 == Append(l.calls, CallM("create_label", name, oc, {NewLabelId(ls)}, {}))
        new_label == create_label(oc, NewLabelId(ls))
    IN  IF ~new_label.ok THEN Fails(c3, new_label.exc)
        ELSE Returns(c3, ResultI("success", "label_created", new_label.v, <<name>>))

CreateEmailLabelRun(name, ls, o) ==
    Handled(CreateEmailLabelBody(name, ls, o), <<"Exception">>)

\* a deletion that does not look at the type of the label it found
DeleteEmailLabelBody_any(name, ls, o) ==
    LET l == ListLabels(ls, o) IN
    IF ~l.out.ok THEN Fails(l.calls, l.out.exc)
    ELSE
    LET found == FindLabel(l.out.v, name) IN
    IF found = None THEN Returns(l.calls, ResultI("not_found", "label", "", <<name>>))
    ELSE
    LET c3 == Append(l.calls, Call("delete_label", Val(found).id, o.delete_label))
        deleted == delete_label(o.delete_label)
    IN  IF ~deleted.ok THEN Fails(c3, deleted.exc)
        ELSE Returns(c3, ResultI("success", "label_deleted", "", <<name>>))

DeleteEmailLabelBody(name, ls, o) ==
    LET l == ListLabels(ls, o) IN
    IF ~l.out.ok THEN Fails(l.calls, l.out.exc)
    ELSE
    LET found == FindLabel(l.out.v, name) IN
    IF found = None THEN Returns(l.calls, ResultI("not_found", "label", "", <<name>>))
    ELSE IF \E k \in 1..Len(l.out.v) :
                l.out.v[k].id = Val(found).id /\ l.out.v[k].type = "system"
    THEN Returns(l.calls, ResultI("refused", "system_label", "", <<name>>))
    ELSE
    LET c3 == Append(l.calls, Call("delete_label", Val(found).id, o.delete_label))
        deleted == delete_label(o.delete_label)
    IN  IF ~deleted.ok THEN Fails(c3, deleted.exc)
        ELSE Returns(c3, ResultI("success", "label_deleted", "", <<name>>))

DeleteEmailLabelRun(name, ls, o) ==
    Handled(DeleteEmailLabelBody(name, ls, o), <<"Exception">>)

\* drafts.send: the one transport call the server makes without a wrapper
SendDraftBody(draft_id, draft, o) ==
    LET c1 == <<Call("service", "-", o.service)>>
        og == Transport(o.get_draft, draft # None)
        c2 == Append(c1, CallR("get_draft", draft_id, og, draft))
        got == get_draft(og, draft)
    IN
    IF o.service # "ok" THEN Fails(c1, ExcOf(o.service))
    ELSE IF ~got.ok THEN Fails(c2, got.exc)
    ELSE IF got.v = None THEN Returns(c2, Result("not_found", "draft", draft_id))
    ELSE
    LET c3 == Append(c2, Call("send_draft", draft_id, o.send_draft)) IN
    IF o.send_draft # "ok" THEN Fails(c3, ExcOf(o.send_draft))
    ELSE Returns(c3, Result("success", "draft_sent", "sent1"))

SendDraftRun(draft_id, draft, o) ==
    Handled(SendDraftBody(draft_id, draft, o), <<"Exception">>)

-----------------------------------------------------------------------------
(* The search, listing and batch tools                                      *)

\* the order in which the API lists the messages and the drafts
MsgOrder == <<"m1", "m2">>

DraftOrder == <<"d1", "d2">>

MsgIds == {MsgOrder[i] : i \in 1..Len(MsgOrder)}

DraftIds == {DraftOrder[i] : i \in 1..Len(DraftOrder)}

\* the queries of the model, by the terms they hold
UnreadQueries ==
    {"is:unread", "has:attachment is:unread", "after:2026/10/30 is:unread",
     "after:2026/10/26 is:unread"}

ImportantQueries == {"is:important"}

AttachmentQueries == {"has:attachment", "has:attachment is:unread"}

KnownQueries ==
    UnreadQueries \cup ImportantQueries \cup AttachmentQueries
        \cup {"", "after:2026/10/26", "after:2026/10/30"}

\* whether the API's search finds a message for a query of the model: the
\* message meets every term, and a message in the trash is not found
Matches(m, query) ==
    /\ ~m.trashed
    /\ query \in KnownQueries
    /\ query \in UnreadQueries => m.labelIds # None /\ "UNREAD" \in Val(m.labelIds)
    /\ query \in ImportantQueries => m.labelIds # None /\ "IMPORTANT" \in Val(m.labelIds)
    /\ query \in AttachmentQueries =>
           \E k \in 1..Len(m.payload.parts) : m.payload.parts[k].filename # ""

\* messages.list(q=query, maxResults=max_results): the ids, in order
Search(ms, query, max_results) ==
    LET all == SelectSeq(MsgOrder, LAMBDA id : id \in DOMAIN ms /\ Matches(ms[id], query))
    IN  SubSeq(all, 1, IF Len(all) < max_results THEN Len(all) ELSE max_results)

\* service = get_gmail_service(); message_ids = search_messages(...)
SearchIds(ms, query, max_results, o) ==
    LET c1 == <<Call("service", "-", o.service)>>
        c2 == Append(c1, CallR("search_messages", query, o.search_messages,
                               Some(Search(ms, query, max_results))))
        found == search_messages(o.search_messages, Search(ms, query, max_results))
    IN  IF o.service # "ok" THEN [calls |-> c1, out |-> Raises(ExcOf(o.service))]
        ELSE [calls |-> c2, out |-> found]

\* a loop of get_message calls that the first failure ends
RECURSIVE FetchAll(_, _, _, _, _)
FetchAll(ids, i, ms, each, calls) ==
    IF i > Len(ids) THEN [calls |-> calls, out |-> Ok(TRUE)]
    ELSE LET c == Append(calls, CallR("get_message", ids[i], each[ids[i]], Some(ms[ids[i]])))
         IN  IF each[ids[i]] # "ok" THEN [calls |-> c, out |-> Raises(ExcOf(each[ids[i]]))]
             ELSE FetchAll(ids, i + 1, ms, each, c)

\* has_attachment
HasAttachment(payload) == \E k \in 1..Len(payload.parts) : payload.parts[k].filename # ""

\* one entry of the list search_emails prints
SearchEntry(id, m) ==
    [id |-> id,
     subject |-> FirstHeader(m.payload.headers, "subject", "No Subject"),
     sender |-> FirstHeader(m.payload.headers, "from", "Unknown Sender"),
     date |-> FormatDate(FirstHeader(m.payload.headers, "date", "Unknown Date")),
     labels |-> IF m.labelIds = None THEN {} ELSE Val(m.labelIds),
     has_attachment |-> HasAttachment(m.payload)]

SearchEmailsBody(query, max_results, ms, o) ==
    LET s == SearchIds(ms, query, max_results, o) IN
    IF ~s.out.ok THEN Fails(s.calls, s.out.exc)
    ELSE IF s.out.v = <<>> THEN Returns(s.calls, ResultI("empty", "no_emails", "", <<query>>))
    ELSE LET f == FetchAll(s.out.v, 1, ms, o.each, s.calls) IN
         IF ~f.out.ok THEN Fails(f.calls, f.out.exc)
         ELSE Returns(f.calls,
                      ResultI("success", "emails", "",
                              [k \in 1..Len(s.out.v) |->
                                   SearchEntry(s.out.v[k], ms[s.out.v[k]])]))

SearchEmailsRun(query, max_results, ms, o) ==
    Handled(SearchEmailsBody(query, max_results, ms, o), <<"Exception">>)

\* search_query of get_emails_with_attachments
AttachmentQuery(query) ==
    IF TruthyStr(query) THEN "has:attachment" \o " " \o Val(query) ELSE "has:attachment"

\* (datetime.now() - timedelta(days=days)).strftime("%Y/%m/%d") on the days
\* of the model, the clock standing at 2026-11-02: a date before year 1
\* is out of datetime's range
DaysAgo(days) ==
    CASE days = 7 -> Ok("2026/10/26")
      [] days = 3 -> Ok("2026/10/30")
      [] OTHER -> Raises("OverflowError")

\* get_recent_emails: the date is computed outside any try block
GetRecentEmailsRun(max_results, days, ms, o) ==
    LET date == DaysAgo(days) IN
    IF ~date.ok THEN Handled(Fails(<<>>, date.exc), <<>>)
    ELSE SearchEmailsRun("after:" \o date.v, max_results, ms, o)

\* re.search(r'"?([^"<]+)"?\s*(?:<[^>]+>)?', sender).group(1).strip() on
\* the senders of the model
SenderName(sender) ==
    CASE sender = "Ann <a@x.com>" -> "Ann"
      [] OTHER -> sender

SummaryEntry(id, m) ==
    [id |-> id,
     subject |-> FirstHeader(m.payload.headers, "subject", "No Subject"),
     sender_name |-> SenderName(FirstHeader(m.payload.headers, "from", "Unknown Sender")),
     date |-> FormatDate(FirstHeader(m.payload.headers, "date", "Unknown Date")),
     is_unread |-> m.labelIds # None /\ "UNREAD" \in Val(m.labelIds),
     is_important |-> m.labelIds # None /\ "IMPORTANT" \in Val(m.labelIds)]

SummarizeBody(max_emails, days, query, ms, o) ==
    LET c1 == <<Call("service", "-", o.service)>>
        date == DaysAgo(days)
    IN
    IF o.service # "ok" THEN Fails(c1, ExcOf(o.service))
    ELSE IF ~date.ok THEN Fails(c1, date.exc)
    ELSE
    LET search_query == IF TruthyStr(query) THEN "after:" \o date.v \o " " \o Val(query)
                        ELSE "after:" \o date.v
        c2 == Append(c1, Call("search_messages", search_query, o.search_messages))
        found == search_messages(o.search_messages, Search(ms, search_query, max_emails))
    IN
    IF ~found.ok THEN Fails(c2, found.exc)
    ELSE IF found.v = <<>> THEN Returns(c2, Result("empty", "no_recent_emails", ""))
    ELSE LET f == FetchAll(found.v, 1, ms, o.each, c2) IN
         IF ~f.out.ok THEN Fails(f.calls, f.out.exc)
         ELSE Returns(f.calls,
                      ResultI("success", "summary", "",
                              [k \in 1..Len(found.v) |->
                                   SummaryEntry(found.v[k], ms[found.v[k]])]))

SummarizeRun(max_emails, days, query, ms, o) ==
    Handled(SummarizeBody(max_emails, days, query, ms, o), <<"Exception">>)

\* drafts.list(maxResults=max_results): the ids of the drafts, in order
ListedDrafts(ds, max_results) ==
    LET all == SelectSeq(DraftOrder, LAMBDA id : ds[id] # None) IN
    SubSeq(all, 1, IF Len(all) < max_results THEN Len(all) ELSE max_results)

\* the get_message calls of list_email_drafts, on each draft's message
RECURSIVE FetchDrafts(_, _, _, _, _)
FetchDrafts(ids, i, ds, each, calls) ==
    IF i > Len(ids) THEN [calls |-> calls, out |-> Ok(TRUE)]
    ELSE LET c == Append(calls, CallR("get_message", ids[i], each[ids[i]], ds[ids[i]]))
         IN  IF each[ids[i]] # "ok" THEN [calls |-> c, out |-> Raises(ExcOf(each[ids[i]]))]
             ELSE FetchDrafts(ids, i + 1, ds, each, c)

DraftEntry(id, payload) ==
    [id |-> id,
     subject |-> FirstHeader(payload.headers, "subject", "No Subject"),
     recipient |-> FirstHeader(payload.headers, "to", "No Recipient"),
     date |-> FirstHeader(payload.headers, "date", "Unknown Date")]

ListEmailDraftsBody(max_results, ds, o) ==
    LET c1 == <<Call("service", "-", o.service)>>
        c2 == Append(c1, Call("list_drafts", "-", o.list_drafts))
        listed == list_drafts(o.list_drafts, ListedDrafts(ds, max_results))
    IN
    IF o.service # "ok" THEN Fails(c1, ExcOf(o.service))
    ELSE IF ~listed.ok THEN Fails(c2, listed.exc)
    ELSE IF listed.v = <<>> THEN Returns(c2, Result("empty", "no_drafts", ""))
    ELSE LET f == FetchDrafts(listed.v, 1, ds, o.each, c2) IN
         IF ~f.out.ok THEN Fails(f.calls, f.out.exc)
         ELSE Returns(f.calls,
                      ResultI("success", "drafts", "",
                              [k \in 1..Len(listed.v) |->
                                   DraftEntry(listed.v[k], Val(ds[listed.v[k]]))]))

ListEmailDraftsRun(max_results, ds, o) ==
    Handled(ListEmailDraftsBody(max_results, ds, o), <<"Exception">>)

\* a loop that the first failure ends
RECURSIVE BatchLoop_stop(_, _, _, _, _, _, _)
BatchLoop_stop(op, ids, i, each, add, calls, success_count) ==
    IF i > Len(ids) THEN [calls |-> calls, success_count |-> success_count]
    ELSE IF each[ids[i]] # "ok"
    THEN [calls |-> Append(calls, CallM(op, ids[i], each[ids[i]], add, {})),
          success_count |-> success_count]
    ELSE BatchLoop_stop(op, ids, i + 1, each, add,
                        Append(calls, CallM(op, ids[i], each[ids[i]], add, {})),
                        success_count + 1)

\* for i, msg_id in enumerate(message_ids): try: <op>(service, msg_id, ...);
\* success_count += 1 except Exception: log it
RECURSIVE BatchLoop(_, _, _, _, _, _, _)
BatchLoop(op, ids, i, each, add, calls, success_count) ==
    IF i > Len(ids) THEN [calls |-> calls, success_count |-> success_count]
    ELSE BatchLoop(op, ids, i + 1, each, add,
                   Append(calls, CallM(op, ids[i], each[ids[i]], add, {})),
                   IF each[ids[i]] = "ok" THEN success_count + 1 ELSE success_count)

Tally(success_count, total) == [success_count |-> success_count, total |-> total]

BatchApplyLabelBody(query, label_name, max_messages, ms, ls, o) ==
    LET s == SearchIds(ms, query, max_messages, o) IN
    IF ~s.out.ok THEN Fails(s.calls, s.out.exc)
    ELSE IF s.out.v = <<>>
    THEN Returns(s.calls, ResultI("empty", "no_messages", "", <<query>>))
    ELSE
    LET c3 == Append(s.calls, Call("get_labels", "-", o.get_labels))
        listed == get_labels(o.get_labels, ls)
    IN
    IF ~listed.ok THEN Fails(c3, listed.exc)
    ELSE
    LET found == FindLabel(listed.v, label_name)
        oc == CreateOutcome(o.create_label, ls)
        c4 == IF found # None THEN c3
              ELSE Append(c3, CallM("create_label", label_name, oc, {NewLabelId(ls)}, {}))
        new_label == create_label(oc, NewLabelId(ls))
    IN
    IF found = None /\ ~new_label.ok THEN Fails(c4, new_label.exc)
    ELSE
    LET label_id == IF found # None THEN Val(found).id ELSE new_label.v
        l == BatchLoop("apply_label", s.out.v, 1, o.each, {label_id}, c4, 0)
    IN  Returns(l.calls, ResultI("success", "batch_labelled", "",
                                 Tally(l.success_count, Len(s.out.v))))

BatchApplyLabelRun(query, label_name, max_messages, ms, ls, o) ==
    Handled(BatchApplyLabelBody(query, label_name, max_messages, ms, ls, o),
            <<"Exception">>)

BatchDeleteEmailsBody(query, max_messages, ms, o) ==
    LET s == SearchIds(ms, query, max_messages, o) IN
    IF ~s.out.ok THEN Fails(s.calls, s.out.exc)
    ELSE IF s.out.v = <<>>
    THEN Returns(s.calls, ResultI("empty", "no_messages", "", <<query>>))
    ELSE LET l == BatchLoop("delete_message", s.out.v, 1, o.each, {}, s.calls, 0) IN
         Returns(l.calls, ResultI("success", "batch_trashed", "",
                                  Tally(l.success_count, Len(s.out.v))))

BatchDeleteEmailsRun(query, max_messages, ms, o) ==
    Handled(BatchDeleteEmailsBody(query, max_messages, ms, o), <<"Exception">>)

\* get_email_profile: a profile that is None ends the tool; the message
\* count is looked up in a try block of its own that swallows any failure
GetEmailProfileBody(addr, ls, ms, o) ==
    LET c1 == <<Call("service", "-", o.service)>>
        c2 == Append(c1, Call("get_profile", "-", o.get_profile))
        prof == get_profile(o.get_profile, addr)
    IN
    IF o.service # "ok" THEN Fails(c1, ExcOf(o.service))
    ELSE IF ~prof.ok THEN Fails(c2, prof.exc)
    ELSE IF prof.v = None THEN Returns(c2, Result("unavailable", "profile", ""))
    ELSE
    LET c3 == Append(c2, Call("get_labels", "-", o.get_labels))
        listed == get_labels(o.get_labels, ls)
    IN
    IF ~listed.ok THEN Fails(c3, listed.exc)
    ELSE
    LET c4 == Append(c3, Call("search_messages", "", o.search_messages)) IN
    Returns(c4, ResultI("success", "profile", "",
                        [emailAddress |-> Val(prof.v),
                         num_labels |-> Len(listed.v),
                         num_user_labels |->
                             Len(SelectSeq(listed.v, LAMBDA x : x.type = "user"))]))

GetEmailProfileRun(addr, ls, ms, o) ==
    Handled(GetEmailProfileBody(addr, ls, ms, o), <<"Exception">>)

-----------------------------------------------------------------------------
(* The mailbox behind the transport: what a successful call changes.       *)

\* the lines of a text written with "\n" for each of "\r\n", "\r" and "\n"
RECURSIVE UnixLines(_)
UnixLines(t) ==
    IF t = <<>> THEN <<>>
    ELSE IF Head(t) # 13 THEN <<Head(t)>> \o UnixLines(Tail(t))
    ELSE IF Len(t) > 1 /\ t[2] = 10 THEN <<10>> \o UnixLines(Tail(Tail(t)))
    ELSE <<10>> \o UnixLines(Tail(t))

\* the lines of a text written with "\r\n" for each line break
RECURSIVE DosLines(_)
DosLines(t) ==
    IF t = <<>> THEN <<>>
    ELSE IF Head(t) = 10 THEN <<13, 10>> \o DosLines(Tail(t))
    ELSE IF Head(t) # 13 THEN <<Head(t)>> \o DosLines(Tail(t))
    ELSE IF Len(t) > 1 /\ t[2] = 10 THEN <<13, 10>> \o DosLines(Tail(Tail(t)))
    ELSE <<13, 10>> \o DosLines(Tail(t))

\* a serialisation that ends every line of an ASCII text with "\r\n"
AsBytesText_crlf(t) == IF \A i \in 1..Len(t) : t[i] < 128 THEN DosLines(t) ELSE t

\* message.as_bytes() on a text leaf, as the receiver decodes it: ASCII text
\* goes out 7bit, line by line; any other text goes out as base64 of its
\* UTF-8 bytes and comes back as it was
AsBytesText(t) == IF \A i \in 1..Len(t) : t[i] < 128 THEN UnixLines(t) ELSE t

\* the API's MessagePart for a composed message: a text leaf carries its
\* text as body.data (no data key when it is empty), an attachment carries
\* a size and no inline data, a multipart carries its children
RECURSIVE StorePart(_)
StorePart(m) ==
    [mimeType |-> Some(m.ctype),
     filename |-> m.filename,
     data |-> IF m.parts # <<>> \/ m.filename # "" \/ m.text = <<>> THEN None
              ELSE Some(EncodeText(AsBytesText(m.text))),
     size |-> IF m.filename # "" THEN m.size ELSE Len(utf8_encode(AsBytesText(m.text))),
     parts |-> [i \in 1..Len(m.parts) |-> StorePart(m.parts[i])],
     headers |-> m.headers]

\* messages.modify, messages.trash and labels.delete on the messages; a
\* message left without labels has no labelIds
RECURSIVE MsgsAfter(_, _)
MsgsAfter(ms, calls) ==
    IF calls = <<>> THEN ms
    ELSE LET c == Head(calls)
             Ids(m) == IF m.labelIds = None THEN {} ELSE Val(m.labelIds)
             Relabel(m, add, remove) ==
                 [m EXCEPT !.labelIds = IF (Ids(m) \cup add) \ remove = {} THEN None
                                        ELSE Some((Ids(m) \cup add) \ remove)]
             ms1 == IF c.outcome # "ok" THEN ms
                    ELSE CASE c.op \in {"apply_label", "remove_label", "modify_message"} ->
                                [ms EXCEPT ![c.target] = Relabel(@, c.add, c.remove)]
                           [] c.op = "delete_message" ->
                                [ms EXCEPT ![c.target].trashed = TRUE]
                           [] c.op = "delete_label" ->
                                [id \in DOMAIN ms |-> Relabel(ms[id], {}, {c.target})]
                           [] OTHER -> ms
         IN  MsgsAfter(ms1, Tail(calls))

\* labels.create and labels.delete on the label list
RECURSIVE LabelsAfter(_, _)
LabelsAfter(ls, calls) ==
    IF calls = <<>> THEN ls
    ELSE LET c == Head(calls)
             ls1 == IF c.outcome # "ok" THEN ls
                    ELSE CASE c.op = "create_label" ->
                                Append(ls, [id |-> CHOOSE x \in c.add : TRUE,
                                            name |-> c.target, type |-> "user"])
                           [] c.op = "delete_label" ->
                                SelectSeq(ls, LAMBDA x : x.id # c.target)
                           [] OTHER -> ls
         IN  LabelsAfter(ls1, Tail(calls))

\* a mailbox that stores the message of every update_draft and create_draft
\* call, the rejected ones included
RECURSIVE DraftsAfter_always(_, _, _)
DraftsAfter_always(ds, calls, written) ==
    IF calls = <<>> THEN ds
    ELSE LET c == Head(calls)
             ds1 == CASE c.op \in {"update_draft", "create_draft"} ->
                           [ds EXCEPT ![c.target] = Some(StorePart(Val(written)))]
                      [] c.op = "send_draft" /\ c.outcome = "ok" ->
                           [ds EXCEPT ![c.target] = None]
                      [] OTHER -> ds
         IN  DraftsAfter_always(ds1, Tail(calls), written)

RECURSIVE DraftsAfter(_, _, _)
DraftsAfter(ds, calls, written) ==
    IF calls = <<>> THEN ds
    ELSE LET c == Head(calls)
             ds1 == IF c.outcome # "ok" THEN ds
                    ELSE CASE c.op \in {"update_draft", "create_draft"} ->
                                [ds EXCEPT ![c.target] = Some(StorePart(Val(written)))]
                           [] c.op = "send_draft" -> [ds EXCEPT ![c.target] = None]
                           [] OTHER -> ds
         IN  DraftsAfter(ds1, Tail(calls), written)

-----------------------------------------------------------------------------
(* Invocations.  The server runs one tool call at a time (no tool awaits); *)
(* it hands the returned string to the caller and keeps nothing of the     *)
(* call.                                                                   *)

MaxCalls == 2

Idle ==
    [tool |-> "none", args |-> <<>>, calls |-> <<>>, written |-> None,
     result |-> Result("none", "", ""), notes |-> <<>>]

\* no invocation is under way
IsIdle == inv.tool = "none"

\* the server takes a call: none is under way, and the session has not
\* reached the number of calls the model follows
Ready == IsIdle /\ served < MaxCalls

Invocation(tool, args, r) ==
    [tool |-> tool, args |-> args, calls |-> r.calls, written |-> r.written,
     result |-> r.out.v, notes |-> r.notes]

\* mcp.run(): the result is delivered and the call's objects are discarded
Respond ==
    /\ ~IsIdle
    /\ inv' = Idle
    /\ served' = served + 1
    /\ UNCHANGED <<labels, msgs, drafts, profile, files>>

\* the outcomes of the calls named in order, one choice for each run of the
\* calls: a call after one that failed is not made when every failure ends
\* the try block, so its outcome is left at "ok"
FailFast(o, order) ==
    \A i, j \in 1..Len(order) : i < j /\ o[order[i]] # "ok" => o[order[j]] = "ok"

UpdateOracles ==
    { o \in [service : ServiceOutcomes, get_draft : Outcomes, get_profile : Outcomes,
             update_draft : Outcomes] :
        FailFast(o, <<"service", "get_draft", "get_profile", "update_draft">>) }

update_email_draft(Ids, Requests) ==
    /\ Ready
    /\ \E draft_id \in Ids, req \in Requests, o \in UpdateOracles :
          LET r == UpdateDraftRun(draft_id, req, drafts[draft_id], profile, o) IN
          /\ inv' = Invocation("update_email_draft",
                               [draft_id |-> draft_id, req |-> req], r)
          /\ drafts' = DraftsAfter(drafts, r.calls, r.written)
    /\ UNCHANGED <<labels, msgs, profile, files, served>>

SendOracles ==
    { o \in [service : ServiceOutcomes, get_profile : Outcomes, send_message : Outcomes] :
        FailFast(o, <<"service", "get_profile", "send_message">>) }

CreateOracles ==
    { o \in [service : ServiceOutcomes, get_profile : Outcomes, create_draft : Outcomes] :
        FailFast(o, <<"service", "get_profile", "create_draft">>) }

send_email(Requests) ==
    /\ Ready
    /\ \E req \in Requests, o \in SendOracles :
          inv' = Invocation("send_email", req, SendEmailRun(req, profile, o))
    /\ UNCHANGED <<labels, msgs, drafts, profile, files, served>>

send_email_with_attachment(Requests) ==
    /\ Ready
    /\ \E req \in Requests, o \in SendOracles :
          inv' = Invocation("send_email_with_attachment", req,
                            SendWithAttachmentRun(req, files, profile, o))
    /\ UNCHANGED <<labels, msgs, drafts, profile, files, served>>

send_email_with_multiple_attachments(Requests) ==
    /\ Ready
    /\ \E req \in Requests, o \in SendOracles :
          inv' = Invocation("send_email_with_multiple_attachments", req,
                            SendWithAttachmentsRun(req, files, profile, o))
    /\ UNCHANGED <<labels, msgs, drafts, profile, files, served>>

\* the id the API gives a new draft: one that no draft has
FreeDraftIds(ds) == {d \in DOMAIN ds : ds[d] = None}

create_email_draft(Requests) ==
    /\ Ready
    /\ FreeDraftIds(drafts) # {}
    /\ \E req \in Requests, o \in CreateOracles :
          LET new_id == CHOOSE d \in FreeDraftIds(drafts) : TRUE
              r == CreateDraftRun(req, new_id, profile, o)
          IN  /\ inv' = Invocation("create_email_draft", req, r)
              /\ drafts' = DraftsAfter(drafts, r.calls, r.written)
    /\ UNCHANGED <<labels, msgs, profile, files, served>>

ReadOracles ==
    { o \in [service : ServiceOutcomes, get_message : Outcomes] :
        FailFast(o, <<"service", "get_message">>) }

\* the message of that id in the mailbox, None when there is none
StoredMsg(ms, id) == IF id \in DOMAIN ms THEN Some(ms[id]) ELSE None

read_email(Ids) ==
    /\ Ready
    /\ \E message_id \in Ids, include_attachments \in BOOLEAN, o \in ReadOracles :
          inv' = Invocation("read_email",
                            [message_id |-> message_id,
                             include_attachments |-> include_attachments],
                            ReadEmailRun(message_id, include_attachments,
                                         StoredMsg(msgs, message_id), o))
    /\ UNCHANGED <<labels, msgs, drafts, profile, files, served>>

\* the outcomes of the calls named in order, as FailFast, where a rejection
\* of a call in soft does not end the try block (its wrapper swallows it)
FailFastS(o, order, soft) ==
    \A i, j \in 1..Len(order) :
        i < j /\ o[order[i]] # "ok" /\ ~(order[i] \in soft /\ o[order[i]] = "reject")
            => o[order[j]] = "ok"

Oracles(order, soft) ==
    { o \in [{order[i] : i \in 1..Len(order)} -> Outcomes] :
        o.service \in ServiceOutcomes /\ FailFastS(o, order, soft) }

\* the outcome of the call made on each id by a loop that goes on after a
\* failure, and by a loop that the first failure ends
LoopEach(Ids) == [Ids -> Outcomes]

AbortEach(Ids) == {e \in [Ids -> Outcomes] : Cardinality({i \in Ids : e[i] # "ok"}) <= 1}

\* the oracles of a tool that runs a loop after the calls named in order
LoopOracles(order, soft, Each) ==
    LET Reached(o) == \A i \in 1..Len(order) :
                          o[order[i]] = "ok" \/ (order[i] \in soft /\ o[order[i]] = "reject")
        Quiet(e) == \A x \in DOMAIN e : e[x] = "ok"
    IN  UNION { { [x \in DOMAIN o \cup {"each"} |-> IF x = "each" THEN e ELSE o[x]] :
                    e \in {f \in Each : Reached(o) \/ Quiet(f)} } :
                o \in Oracles(order, soft) }

send_draft(Ids) ==
    /\ Ready
    /\ \E draft_id \in Ids, o \in Oracles(<<"service", "get_draft", "send_draft">>, {}) :
          LET r == SendDraftRun(draft_id, drafts[draft_id], o) IN
          /\ inv' = Invocation("send_draft", [draft_id |-> draft_id], r)
          /\ drafts' = DraftsAfter(drafts, r.calls, r.written)
    /\ UNCHANGED <<labels, msgs, profile, files, served>>

list_email_drafts(Max) ==
    /\ Ready
    /\ \E max_results \in Max,
          o \in LoopOracles(<<"service", "list_drafts">>, {"list_drafts"},
                            AbortEach(DraftIds)) :
          inv' = Invocation("list_email_drafts", [max_results |-> max_results],
                            ListEmailDraftsRun(max_results, drafts, o))
    /\ UNCHANGED <<labels, msgs, drafts, profile, files, served>>

SearchOracles ==
    LoopOracles(<<"service", "search_messages">>, {"search_messages"}, AbortEach(MsgIds))

search_emails(Queries, Max) ==
    /\ Ready
    /\ \E query \in Queries, max_results \in Max, o \in SearchOracles :
          inv' = Invocation("search_emails",
                            [query |-> query, max_results |-> max_results],
                            SearchEmailsRun(query, max_results, msgs, o))
    /\ UNCHANGED <<labels, msgs, drafts, profile, files, served>>

\* return await search_emails("is:unread", max_results, ctx)
get_unread_emails(Max) ==
    /\ Ready
    /\ \E max_results \in Max, o \in SearchOracles :
          inv' = Invocation("get_unread_emails", [max_results |-> max_results],
                            SearchEmailsRun("is:unread", max_results, msgs, o))
    /\ UNCHANGED <<labels, msgs, drafts, profile, files, served>>

get_important_emails(Max) ==
    /\ Ready
    /\ \E max_results \in Max, o \in SearchOracles :
          inv' = Invocation("get_important_emails", [max_results |-> max_results],
                            SearchEmailsRun("is:important", max_results, msgs, o))
    /\ UNCHANGED <<labels, msgs, drafts, profile, files, served>>

get_emails_with_attachments(Queries, Max) ==
    /\ Ready
    /\ \E query \in Queries, max_results \in Max, o \in SearchOracles :
          inv' = Invocation("get_emails_with_attachments",
                            [query |-> query, max_results |-> max_results],
                            SearchEmailsRun(AttachmentQuery(query), max_results, msgs, o))
    /\ UNCHANGED <<labels, msgs, drafts, profile, files, served>>

get_recent_emails(Days, Max) ==
    /\ Ready
    /\ \E days \in Days, max_results \in Max, o \in SearchOracles :
          inv' = Invocation("get_recent_emails",
                            [days |-> days, max_results |-> max_results],
                            GetRecentEmailsRun(max_results, days, msgs, o))
    /\ UNCHANGED <<labels, msgs, drafts, profile, files, served>>

summarize_recent_emails(Days, Queries, Max) ==
    /\ Ready
    /\ \E days \in Days, query \in Queries, max_emails \in Max, o \in SearchOracles :
          inv' = Invocation("summarize_recent_emails",
                            [days |-> days, query |-> query, max_emails |-> max_emails],
                            SummarizeRun(max_emails, days, query, msgs, o))
    /\ UNCHANGED <<labels, msgs, drafts, profile, files, served>>

get_email_labels ==
    /\ Ready
    /\ \E o \in Oracles(<<"service", "get_labels">>, {"get_labels"}) :
          inv' = Invocation("get_email_labels", <<>>, GetEmailLabelsRun(labels, o))
    /\ UNCHANGED <<labels, msgs, drafts, profile, files, served>>

create_email_label(Names) ==
    /\ Ready
    /\ \E name \in Names,
          o \in Oracles(<<"service", "get_labels", "create_label">>, {"get_labels"}) :
          LET r == CreateEmailLabelRun(name, labels, o) IN
          /\ inv' = Invocation("create_email_label", [name |-> name], r)
          /\ labels' = LabelsAfter(labels, r.calls)
    /\ UNCHANGED <<msgs, drafts, profile, files, served>>

delete_email_label(Names) ==
    /\ Ready
    /\ \E name \in Names,
          o \in Oracles(<<"service", "get_labels", "delete_label">>, {"get_labels"}) :
          LET r == DeleteEmailLabelRun(name, labels, o) IN
          /\ inv' = Invocation("delete_email_label", [name |-> name], r)
          /\ labels' = LabelsAfter(labels, r.calls)
          /\ msgs' = MsgsAfter(msgs, r.calls)
    /\ UNCHANGED <<drafts, profile, files, served>>

label_email(Ids, Names) ==
    /\ Ready
    /\ \E message_id \in Ids, label_name \in Names,
          o \in Oracles(<<"service", "get_message", "get_labels", "create_label",
                          "apply_label">>, {"get_labels"}) :
          LET r == LabelEmailRun(message_id, label_name, StoredMsg(msgs, message_id),
                                 labels, o)
          IN  /\ inv' = Invocation("label_email",
                                   [message_id |-> message_id, label_name |-> label_name], r)
              /\ labels' = LabelsAfter(labels, r.calls)
              /\ msgs' = MsgsAfter(msgs, r.calls)
    /\ UNCHANGED <<drafts, profile, files, served>>

remove_email_label(Ids, Names) ==
    /\ Ready
    /\ \E message_id \in Ids, label_name \in Names,
          o \in Oracles(<<"service", "get_message", "get_labels", "remove_label">>,
                        {"get_labels"}) :
          LET r == RemoveEmailLabelRun(message_id, label_name,
                                       StoredMsg(msgs, message_id), labels, o)
          IN  /\ inv' = Invocation("remove_email_label",
                                   [message_id |-> message_id, label_name |-> label_name], r)
              /\ msgs' = MsgsAfter(msgs, r.calls)
    /\ UNCHANGED <<labels, drafts, profile, files, served>>

mark_as_read(Ids) ==
    /\ Ready
    /\ \E message_id \in Ids,
          o \in Oracles(<<"service", "get_message", "modify_message">>, {}) :
          LET r == MarkAsReadRun(message_id, StoredMsg(msgs, message_id), o) IN
          /\ inv' = Invocation("mark_as_read", [message_id |-> message_id], r)
          /\ msgs' = MsgsAfter(msgs, r.calls)
    /\ UNCHANGED <<labels, drafts, profile, files, served>>

mark_as_unread(Ids) ==
    /\ Ready
    /\ \E message_id \in Ids,
          o \in Oracles(<<"service", "get_message", "modify_message">>, {}) :
          LET r == MarkAsUnreadRun(message_id, StoredMsg(msgs, message_id), o) IN
          /\ inv' = Invocation("mark_as_unread", [message_id |-> message_id], r)
          /\ msgs' = MsgsAfter(msgs, r.calls)
    /\ UNCHANGED <<labels, drafts, profile, files, served>>

delete_email(Ids) ==
    /\ Ready
    /\ \E message_id \in Ids,
          o \in Oracles(<<"service", "get_message", "delete_message">>, {}) :
          LET r == DeleteEmailRun(message_id, StoredMsg(msgs, message_id), o) IN
          /\ inv' = Invocation("delete_email", [message_id |-> message_id], r)
          /\ msgs' = MsgsAfter(msgs, r.calls)
    /\ UNCHANGED <<labels, drafts, profile, files, served>>

batch_apply_label(Queries, Names, Max) ==
    /\ Ready
    /\ \E query \in Queries, label_name \in Names, max_messages \in Max,
          o \in LoopOracles(<<"service", "search_messages", "get_labels", "create_label">>,
                            {"search_messages", "get_labels"}, LoopEach(MsgIds)) :
          LET r == BatchApplyLabelRun(query, label_name, max_messages, msgs, labels, o) IN
          /\ inv' = Invocation("batch_apply_label",
                               [query |-> query, label_name |-> label_name,
                                max_messages |-> max_messages], r)
          /\ labels' = LabelsAfter(labels, r.calls)
          /\ msgs' = MsgsAfter(msgs, r.calls)
    /\ UNCHANGED <<drafts, profile, files, served>>

batch_delete_emails(Queries, Max) ==
    /\ Ready
    /\ \E query \in Queries, max_messages \in Max,
          o \in LoopOracles(<<"service", "search_messages">>, {"search_messages"},
                            LoopEach(MsgIds)) :
          LET r == BatchDeleteEmailsRun(query, max_messages, msgs, o) IN
          /\ inv' = Invocation("batch_delete_emails",
                               [query |-> query, max_messages |-> max_messages], r)
          /\ msgs' = MsgsAfter(msgs, r.calls)
    /\ UNCHANGED <<labels, drafts, profile, files, served>>

get_email_profile ==
    /\ Ready
    /\ \E o \in Oracles(<<"service", "get_profile", "get_labels", "search_messages">>,
                        {"get_labels", "search_messages"}) :
          inv' = Invocation("get_email_profile", <<>>,
                            GetEmailProfileRun(profile, labels, msgs, o))
    /\ UNCHANGED <<labels, msgs, drafts, profile, files, served>>

-----------------------------------------------------------------------------
(* The values the model draws from.                                        *)

TextP == <<80>>                      \* "P"

TextQ == <<81, 233>>                 \* "Q" followed by e-acute (two bytes in UTF-8)

TextB == <<66>>                      \* "B"

TextH == <<60, 98, 62, 72>>          \* "<b>H"

TextG == <<60, 105, 62, 71>>         \* "<i>G"

Paths == {"/t/a.pdf", "/u/a.pdf", "no.bin"}

\* a regular file, a regular file the process may not read, no file
FileStates == {"file", "locked", "absent"}

NoFiles == [p \in Paths |-> "absent"]

AttachmentPart == GPart(Some("application/pdf"), "a.pdf", None, 2048, <<>>)

PlainPart(t) == GPart(Some("text/plain"), "", Some(EncodeText(t)), Len(utf8_encode(t)), <<>>)

HtmlPart(t) == GPart(Some("text/html"), "", Some(EncodeText(t)), Len(utf8_encode(t)), <<>>)

Multi(ctype, parts) == GPart(Some(ctype), "", None, 0, parts)

\* a text/plain part whose bytes are not UTF-8 (the byte 0xFF)
BadUtf8Part == GPart(Some("text/plain"), "", Some(urlsafe_b64encode(<<255>>)), 1, <<>>)

\* a text/plain part whose data lost its padding
BadBase64Part == GPart(Some("text/plain"), "", Some(<<20, 0>>), 1, <<>>)

\* the payloads a draft may have when update_email_draft reads it
ExistingPayloads ==
    { PlainPart(TextP),
      PlainPart(TextQ),
      HtmlPart(TextH),
      GPart(Some("text/plain"), "", None, 0, <<>>),
      Multi("multipart/alternative", <<PlainPart(TextP), HtmlPart(TextH)>>),
      Multi("multipart/alternative", <<HtmlPart(TextH), PlainPart(TextQ)>>),
      Multi("multipart/mixed", <<PlainPart(TextP), AttachmentPart>>),
      Multi("multipart/mixed",
            <<Multi("multipart/alternative", <<PlainPart(TextP), HtmlPart(TextH)>>),
              AttachmentPart>>),
      Multi("multipart/mixed", <<PlainPart(TextP), PlainPart(TextQ)>>),
      Multi("multipart/mixed",
            <<GPart(Some("text/plain"), "", None, 0, <<>>), HtmlPart(TextG),
              PlainPart(TextQ), HtmlPart(TextH)>>),
      Multi("multipart/mixed",
            <<Multi("multipart/alternative", <<PlainPart(TextP), HtmlPart(TextH)>>),
              PlainPart(TextQ)>>),
      BadUtf8Part,
      Multi("multipart/alternative", <<BadBase64Part, HtmlPart(TextH)>>) }

\* the header lists a draft may have: usual, other letter cases, no To,
\* repeated names, empty values
ExistingHeaderLists ==
    { <<Header("To", "a@x.com"), Header("Subject", "S"), Header("From", "old@x.com")>>,
      <<Header("TO", "a@x.com"), Header("subject", "S"), Header("CC", "c@x.com"),
        Header("Bcc", "b@x.com"), Header("From", "old@x.com")>>,
      <<Header("Subject", "S"), Header("Cc", "c@x.com")>>,
      <<Header("To", "a@x.com"), Header("to", "a2@x.com"), Header("Subject", "S"),
        Header("Cc", "c@x.com"), Header("cc", "c2@x.com")>>,
      <<Header("To", ""), Header("Subject", ""), Header("Cc", ""), Header("Bcc", "b@x.com")>> }

Opt(S) == {None} \cup {Some(x) : x \in S}

\* every update request: each field unset, empty or set
AllRequests ==
    [to : Opt({"", "n@x.com"}), subject : Opt({"", "S2"}),
     cc : Opt({"", "c9@x.com"}), bcc : Opt({"", "b9@x.com"}),
     body : Opt({<<>>, TextB}), html_body : Opt({<<>>, TextG})]

SystemLabel(id) == [id |-> id, name |-> id, type |-> "system"]

UserLabel(id, name) == [id |-> id, name |-> name, type |-> "user"]

BaseLabels == <<SystemLabel("INBOX"), SystemLabel("UNREAD"), UserLabel("Label_1", "Work")>>

Message(labelIds, payload) == [labelIds |-> labelIds, trashed |-> FALSE, payload |-> payload]

BaseMsgs ==
    [m \in MsgIds |->
        IF m = "m1"
        THEN Message(Some({"INBOX", "UNREAD"}),
                     WithHeaders(PlainPart(TextP),
                                 <<Header("Subject", "S"), Header("From", "a@x.com"),
                                   Header("To", "me@x.com")>>))
        ELSE Message(None,
                     WithHeaders(HtmlPart(TextH), <<Header("subject", "S")>>))]

-----------------------------------------------------------------------------
(* SpecDraft: one update_email_draft call on every draft of the domain.    *)

InitDraft ==
    /\ labels = BaseLabels
    /\ msgs = BaseMsgs
    /\ \E p \in ExistingPayloads, hs \in ExistingHeaderLists :
          drafts = [d \in DraftIds |-> IF d = "d1" THEN Some(WithHeaders(p, hs)) ELSE None]
    /\ profile = "me@x.com"
    /\ files = NoFiles
    /\ inv = Idle
    /\ served = 0

NextDraft == update_email_draft({"d1"}, AllRequests)

SpecDraft == InitDraft /\ [][NextDraft]_vars

-----------------------------------------------------------------------------
(* SpecSend: one call of a sending or draft-creating tool, over every state *)
(* of the files the attachment paths name.                                  *)

MaxPaths == 2

PathLists == UNION {[1..n -> Paths] : n \in 0..MaxPaths}

SendRequests ==
    [to : {"a@x.com"}, subject : {"S"}, body : {<<>>, TextB},
     cc : Opt({"", "c@x.com"}), bcc : Opt({"b@x.com"}),
     html_body : Opt({<<>>, TextG}),
     importance : Opt({"", "high", "HIGH", "Low", "normal", "medium"})]

DraftRequests ==
    [to : {"a@x.com"}, subject : {"S"}, body : {<<>>, TextB},
     cc : Opt({"", "c@x.com"}), bcc : Opt({"b@x.com"}),
     html_body : Opt({<<>>, TextG})]

AttachmentRequests ==
    [to : {"a@x.com"}, subject : {"S"}, body : {<<>>, TextB},
     cc : Opt({"c@x.com"}), bcc : Opt({"b@x.com"}),
     html_body : Opt({<<>>, TextG}), attachment_path : Paths]

AttachmentsRequests ==
    [to : {"a@x.com"}, subject : {"S"}, body : {<<>>, TextB},
     cc : Opt({"c@x.com"}), bcc : Opt({"b@x.com"}),
     html_body : Opt({<<>>, TextG}), attachment_paths : PathLists, ctx : BOOLEAN]

InitSend ==
    /\ labels = BaseLabels
    /\ msgs = BaseMsgs
    /\ drafts = [d \in DraftIds |-> None]
    /\ profile = "me@x.com"
    /\ files \in [Paths -> FileStates]
    /\ inv = Idle
    /\ served = 0

NextSend ==
    \/ send_email(SendRequests)
    \/ send_email_with_attachment(AttachmentRequests)
    \/ send_email_with_multiple_attachments(AttachmentsRequests)
    \/ create_email_draft(DraftRequests)

SpecSend == InitSend /\ [][NextSend]_vars

-----------------------------------------------------------------------------
(* SpecRead: one read_email call on every message of the domain.            *)

TextBr == <<97, 60, 98, 114, 62, 38, 97, 109, 112, 59>>      \* "a<br>&amp;"

\* a part with inline data and no mimeType key
BarePart(t) == GPart(None, "", Some(EncodeText(t)), Len(utf8_encode(t)), <<>>)

\* a text part with a file name and inline data
NamedTextPart(t) == GPart(Some("text/plain"), "n.txt", Some(EncodeText(t)), Len(utf8_encode(t)), <<>>)

\* an inline image
ImagePart == GPart(Some("image/png"), "", Some(urlsafe_b64encode(<<137, 80>>)), 2, <<>>)

\* a text part whose data is the empty string
EmptyDataPart == GPart(Some("text/plain"), "", Some(<<>>), 0, <<>>)

\* an image sent as a file
ImageAttachment == GPart(Some("image/png"), "b.png", None, 7, <<>>)

ReadPayloads ==
    { PlainPart(TextP),
      HtmlPart(TextH),
      HtmlPart(TextBr),
      Multi("multipart/alternative", <<PlainPart(TextP), HtmlPart(TextH)>>),
      Multi("multipart/alternative", <<HtmlPart(TextH), PlainPart(TextQ)>>),
      Multi("multipart/mixed",
            <<Multi("multipart/alternative", <<PlainPart(TextP), HtmlPart(TextH)>>),
              AttachmentPart>>),
      Multi("multipart/mixed", <<PlainPart(TextP), PlainPart(TextQ)>>),
      Multi("multipart/mixed", <<HtmlPart(TextBr), HtmlPart(TextG)>>),
      Multi("multipart/mixed", <<AttachmentPart>>),
      BarePart(TextB),
      Multi("multipart/mixed", <<HtmlPart(TextH), BarePart(TextB), PlainPart(TextP)>>),
      BadUtf8Part,
      BadBase64Part,
      Multi("multipart/mixed", <<PlainPart(TextP), BadBase64Part>>),
      Multi("multipart/mixed", <<NamedTextPart(TextQ), AttachmentPart>>),
      ImagePart,
      Multi("multipart/related", <<HtmlPart(TextG), ImagePart>>),
      Multi("multipart/mixed", <<EmptyDataPart, HtmlPart(TextH)>>),
      Multi("multipart/mixed",
            <<Multi("multipart/mixed",
                    <<AttachmentPart,
                      Multi("multipart/alternative", <<HtmlPart(TextH), PlainPart(TextP)>>)>>),
              PlainPart(TextQ)>>),
      [PlainPart(TextP) EXCEPT !.parts = <<PlainPart(TextQ)>>],
      Multi("multipart/mixed",
            <<Multi("multipart/mixed", <<ImageAttachment, PlainPart(TextQ)>>),
              AttachmentPart, PlainPart(TextP)>>),
      [PlainPart(TextP) EXCEPT !.parts = <<PlainPart(TextQ), AttachmentPart>>] }

ReadHeaderLists ==
    { <<Header("Subject", "S"), Header("From", "a@x.com"), Header("To", "me@x.com"),
        Header("Date", "Mon, 02 Nov 2026 10:05:00 +0000")>>,
      <<Header("subject", "=?utf-8?b?UzI=?="), Header("SUBJECT", "S"),
        Header("Cc", ""), Header("cc", "c@x.com"), Header("Date", "yesterday")>>,
      <<Header("To", "a@x.com"), Header("to", "b@x.com"), Header("Cc", "c@x.com")>>,
      <<>> }

ReadIds == {"m1", "m2", "m9"}

InitRead ==
    /\ labels = BaseLabels
    /\ \E p \in ReadPayloads, hs \in ReadHeaderLists,
          ls \in {None, Some({"INBOX", "UNREAD"})} :
          msgs = [BaseMsgs EXCEPT !["m1"] = Message(ls, WithHeaders(p, hs))]
    /\ drafts = [d \in DraftIds |-> None]
    /\ profile = "me@x.com"
    /\ files = NoFiles
    /\ inv = Idle
    /\ served = 0

NextRead == read_email(ReadIds)

SpecRead == InitRead /\ [][NextRead]_vars

-----------------------------------------------------------------------------
(* Spec: a session of up to MaxCalls calls of any of the tools.             *)

MaxBatch == 2

Counts == 1..MaxBatch

SomeFiles == [p \in Paths |-> CASE p = "/t/a.pdf" -> "file"
                                [] p = "/u/a.pdf" -> "locked"
                                [] OTHER -> "absent"]

MailRequest ==
    [to |-> "a@x.com", subject |-> "S", body |-> TextB, cc |-> None, bcc |-> None,
     html_body |-> Some(TextG)]

NoChange ==
    [to |-> None, subject |-> None, cc |-> None, bcc |-> None, body |-> None,
     html_body |-> None]

Extend(r, k, v) == [x \in DOMAIN r \cup {k} |-> IF x = k THEN v ELSE r[x]]

ToolMsgIds == MsgIds \cup {"m9"}

LabelNames == {"work", "Todo"}

ToolQueries == {"is:unread", ""}

\* far enough back to leave the range of datetime
TooManyDays == 800000

Init ==
    /\ labels = BaseLabels
    /\ msgs = BaseMsgs
    /\ drafts = [d \in DraftIds |->
                    IF d = "d1"
                    THEN Some(WithHeaders(Multi("multipart/alternative",
                                                <<PlainPart(TextP), HtmlPart(TextH)>>),
                                          <<Header("To", "a@x.com"), Header("Subject", "S")>>))
                    ELSE None]
    /\ profile = "me@x.com"
    /\ files = SomeFiles
    /\ inv = Idle
    /\ served = 0

Next ==
    \/ send_email({Extend(MailRequest, "importance", Some("high"))})
    \/ send_email_with_attachment({Extend(MailRequest, "attachment_path", p) : p \in Paths})
    \/ send_email_with_multiple_attachments(
           {Extend(Extend(MailRequest, "attachment_paths", <<"no.bin", "/t/a.pdf">>),
                   "ctx", TRUE)})
    \/ create_email_draft({MailRequest})
    \/ update_email_draft(DraftIds, {[NoChange EXCEPT !.subject = Some("S2")],
                                     [NoChange EXCEPT !.html_body = Some(TextG)]})
    \/ send_draft(DraftIds)
    \/ list_email_drafts(Counts)
    \/ search_emails(ToolQueries, Counts)
    \/ read_email(ToolMsgIds)
    \/ get_unread_emails(Counts)
    \/ get_important_emails(Counts)
    \/ get_emails_with_attachments({None, Some("is:unread")}, Counts)
    \/ get_recent_emails({7, TooManyDays}, Counts)
    \/ get_email_labels
    \/ create_email_label(LabelNames)
    \/ delete_email_label(LabelNames \cup {"inbox"})
    \/ label_email(ToolMsgIds, LabelNames)
    \/ remove_email_label(ToolMsgIds, LabelNames)
    \/ mark_as_read(ToolMsgIds)
    \/ mark_as_unread(ToolMsgIds)
    \/ delete_email(ToolMsgIds)
    \/ batch_apply_label(ToolQueries, LabelNames, Counts)
    \/ batch_delete_emails(ToolQueries, Counts)
    \/ get_email_profile
    \/ summarize_recent_emails({3, TooManyDays}, {None, Some("is:unread")}, Counts)
    \/ Respond

Spec == Init /\ [][Next]_vars

-----------------------------------------------------------------------------
(* Properties.  What each one reads of the last invocation.                *)

HasCall(op) == \E i \in 1..Len(inv.calls) : inv.calls[i].op = op

CallsOf(op) == {i \in 1..Len(inv.calls) : inv.calls[i].op = op}

\* update_email_draft handed a message to update_draft
UpdWritten == inv.tool = "update_email_draft" /\ HasCall("update_draft")

\* the draft as get_draft returned it to this invocation
FetchedDraft == Val(inv.calls[CHOOSE i \in CallsOf("get_draft") : TRUE].reply)

\* the values of the headers of message m named name (exact name)
MimeHeader(m, name) == {m.headers[i].value : i \in {j \in 1..Len(m.headers) : m.headers[j].name = name}}

\* the values of the stored headers whose name is key in any letter case
StoredHeader(hs, key) == {hs[i].value : i \in {j \in 1..Len(hs) : Lower(hs[j].name) = key}}

\* the text of the text/<subtype> part of a composed message: the message
\* itself, or a direct child of the multipart
MimeText(m, ctype) ==
    IF m.parts = <<>> THEN IF m.ctype = ctype THEN Some(m.text) ELSE None
    ELSE LET hit == {i \in 1..Len(m.parts) : m.parts[i].ctype = ctype} IN
         IF hit = {} THEN None ELSE Some(m.parts[CHOOSE i \in hit : \A j \in hit : i <= j].text)

\* where the stored bodies of the given type are: the payload itself (1) or
\* the direct children of the multipart that carry data
StoredBodies(p, mt) ==
    IF p.parts = <<>> THEN IF p.mimeType = Some(mt) /\ p.data # None THEN {1} ELSE {}
    ELSE {i \in 1..Len(p.parts) : p.parts[i].mimeType = Some(mt) /\ p.parts[i].data # None}

\* the data of the first of them
StoredBody(p, mt) ==
    IF p.parts = <<>> THEN Val(p.data)
    ELSE Val(p.parts[CHOOSE i \in StoredBodies(p, mt) : \A j \in StoredBodies(p, mt) : i <= j].data)

\* a draft whose bodies are not in doubt: a leaf, or a multipart of leaves
\* with at most one text/plain and one text/html among them
FlatDraft(p) ==
    /\ \A i \in 1..Len(p.parts) : p.parts[i].parts = <<>>
    /\ Cardinality(StoredBodies(p, "text/plain")) <= 1
    /\ Cardinality(StoredBodies(p, "text/html")) <= 1

\* a field left unset keeps the existing value: to and subject ("" when the
\* draft has none)
KeptStr(hs, key, written) ==
    IF StoredHeader(hs, key) = {} THEN written = {""}
    ELSE Cardinality(written) = 1 /\ written \subseteq StoredHeader(hs, key)

\* a field left unset keeps the existing value: cc and bcc (no header when
\* the draft has none or an empty one)
KeptOpt(hs, key, written) ==
    IF StoredHeader(hs, key) = {} THEN written = {}
    ELSE /\ Cardinality(written) <= 1
         /\ written \subseteq (StoredHeader(hs, key) \ {""})
         /\ (written = {} => "" \in StoredHeader(hs, key))

\* an unset body keeps the stored body of its type
KeptBody(p, mt, text) ==
    IF StoredBodies(p, mt) = {} THEN text = None \/ text = Some(<<>>)
    ELSE text # None /\ EncodeText(Val(text)) = StoredBody(p, mt)

\* C6: every field the request leaves unset (to, subject, cc, bcc, body,
\* htmlBody) has, in the message written by update_draft, the value it has
\* in the existing draft, whatever the other fields are.
C6_UnsetFieldsKept ==
    UpdWritten /\ FlatDraft(FetchedDraft) =>
        LET req == inv.args.req
            p == FetchedDraft
            m == Val(inv.written)
        IN  /\ req.to = None => KeptStr(p.headers, "to", MimeHeader(m, "To"))
            /\ req.subject = None => KeptStr(p.headers, "subject", MimeHeader(m, "Subject"))
            /\ req.cc = None => KeptOpt(p.headers, "cc", MimeHeader(m, "Cc"))
            /\ req.bcc = None => KeptOpt(p.headers, "bcc", MimeHeader(m, "Bcc"))
            /\ req.body = None => KeptBody(p, "text/plain", MimeText(m, "text/plain"))
            /\ req.html_body = None => KeptBody(p, "text/html", MimeText(m, "text/html"))

\* C7: with neither body nor htmlBody supplied, on a draft whose plain body
\* P is the text/plain payload or the first direct text/plain child of the
\* multipart, the message written has plain body P, the existing To unless
\* to was supplied, and the supplied subject or else the existing one.
C7_PlainBodyKept ==
    /\ UpdWritten
    /\ inv.args.req.body = None /\ inv.args.req.html_body = None
    /\ StoredBodies(FetchedDraft, "text/plain") # {}
    =>  LET req == inv.args.req
            p == FetchedDraft
            m == Val(inv.written)
        IN  /\ MimeText(m, "text/plain") # None
            /\ EncodeText(Val(MimeText(m, "text/plain"))) = StoredBody(p, "text/plain")
            /\ IF req.to # None THEN MimeHeader(m, "To") = {Val(req.to)}
               ELSE KeptStr(p.headers, "to", MimeHeader(m, "To"))
            /\ IF req.subject # None THEN MimeHeader(m, "Subject") = {Val(req.subject)}
               ELSE KeptStr(p.headers, "subject", MimeHeader(m, "Subject"))

\* a multipart draft with a direct text/plain child was updated with a new
\* subject only, and the update went through
C7_Witness ==
    /\ UpdWritten /\ inv.result.kind = "success"
    /\ inv.args.req = [to |-> None, subject |-> Some("S2"), cc |-> None, bcc |-> None,
                       body |-> None, html_body |-> None]
    /\ FetchedDraft.parts # <<>>
    /\ Cardinality(StoredBodies(FetchedDraft, "text/plain")) = 1
    /\ MimeText(Val(inv.written), "text/plain") = Some(TextQ)

\* C8: for to, subject, cc and bcc a supplied value wins, the empty string
\* included (it clears the field: an empty To or Subject, no Cc or Bcc
\* header); an unsupplied field takes the existing header's value; with no
\* existing header to and subject are empty and cc and bcc have no header.
C8_SuppliedHeaderWins ==
    UpdWritten =>
        LET req == inv.args.req
            hs == FetchedDraft.headers
            m == Val(inv.written)
            Str(sup, key, name) ==
                IF sup # None THEN MimeHeader(m, name) = {Val(sup)}
                ELSE KeptStr(hs, key, MimeHeader(m, name))
            Op(sup, key, name) ==
                IF sup # None
                THEN MimeHeader(m, name) = IF Val(sup) = "" THEN {} ELSE {Val(sup)}
                ELSE KeptOpt(hs, key, MimeHeader(m, name))
        IN  /\ Str(req.to, "to", "To") /\ Str(req.subject, "subject", "Subject")
            /\ Op(req.cc, "cc", "Cc") /\ Op(req.bcc, "bcc", "Bcc")
            /\ \A name \in {"To", "Subject", "Cc", "Bcc"} :
                  Cardinality({i \in 1..Len(m.headers) : m.headers[i].name = name}) <= 1

\* an empty cc and an empty to were supplied for a draft that has both
\* headers, and the message written has an empty To and no Cc
C8_Witness ==
    /\ UpdWritten
    /\ inv.args.req.cc = Some("") /\ inv.args.req.to = Some("")
    /\ inv.args.req.bcc = None
    /\ StoredHeader(FetchedDraft.headers, "cc") = {"c@x.com"}
    /\ StoredHeader(FetchedDraft.headers, "to") = {"a@x.com"}
    /\ MimeHeader(Val(inv.written), "Cc") = {}
    /\ MimeHeader(Val(inv.written), "To") = {""}
    /\ MimeHeader(Val(inv.written), "Bcc") = {"b@x.com"}

\* C9: an update_draft call is preceded by a profile lookup made after the
\* draft was fetched, the message written has the looked-up address as its
\* one From header whatever From the draft had, and after a failed lookup
\* there is no update_draft call.
C9_FromIsFreshProfile ==
    inv.tool = "update_email_draft" =>
        /\ HasCall("update_draft") =>
              /\ Len(inv.calls) = 4
              /\ inv.calls[2].op = "get_draft" /\ inv.calls[2].outcome = "ok"
              /\ inv.calls[3].op = "get_profile" /\ inv.calls[3].outcome = "ok"
              /\ inv.calls[4].op = "update_draft"
              /\ MimeHeader(Val(inv.written), "From") = {profile}
              /\ Cardinality({i \in 1..Len(Val(inv.written).headers) :
                                 Lower(Val(inv.written).headers[i].name) = "from"}) = 1
        /\ (\E i \in CallsOf("get_profile") : inv.calls[i].outcome # "ok")
              => ~HasCall("update_draft")
        /\ inv.result.kind = "success" => HasCall("update_draft")

\* a draft whose From is another address was updated with success
C9_Witness ==
    /\ UpdWritten /\ inv.result.kind = "success"
    /\ StoredHeader(FetchedDraft.headers, "from") = {"old@x.com"}
    /\ MimeHeader(Val(inv.written), "From") = {"me@x.com"}

\* how many times the invocation called op
Times(op) == Cardinality(CallsOf(op))

\* the service and the profile lookup of the invocation succeeded
LookedUp == \E i \in CallsOf("get_profile") : inv.calls[i].outcome = "ok"

MultiSend == inv.tool = "send_email_with_multiple_attachments"

\* the paths of the request that are files the tool can read, in order
ResolvedPaths == SelectSeq(inv.args.attachment_paths, LAMBDA p : Readable(files, p))

\* the paths of the request that are no files, in order
MissingPaths == SelectSeq(inv.args.attachment_paths, LAMBDA p : ~IsFile(files, p))

\* the file names of the attachment parts of a composed message, in order
AttachedNames(m) ==
    LET a == SelectSeq(m.parts, LAMBDA part : part.filename # "") IN
    [k \in 1..Len(a) |-> a[k].filename]

Names(paths) == [k \in 1..Len(paths) |-> Basename(paths[k])]

Range(s) == {s[k] : k \in 1..Len(s)}

\* C4: send_email_with_multiple_attachments with a non-empty list of paths
\* none of which is a readable file returns an error result and makes no
\* send call.
C4_AllMissingNoSend ==
    /\ MultiSend
    /\ inv.args.attachment_paths # <<>>
    /\ ResolvedPaths = <<>>
    => inv.result.kind = "error" /\ Times("send_message") = 0 /\ inv.written = None

\* two paths, neither a file, after a successful profile lookup: the tool
\* refused to send
C4_Witness ==
    /\ MultiSend /\ LookedUp
    /\ Len(inv.args.attachment_paths) = 2
    /\ Len(MissingPaths) = 2
    /\ inv.result = Result("error", "no_attachment_found", "")
    /\ Times("send_message") = 0

RECURSIVE DataLeaves(_)
RECURSIVE DataLeavesOf(_, _)

DataLeavesOf(parts, i) ==
    IF i > Len(parts) THEN <<>> ELSE DataLeaves(parts[i]) \o DataLeavesOf(parts, i + 1)

DataLeaves(p) ==
    IF TruthyText(p.data) THEN <<p>>
    ELSE IF p.filename # "" THEN <<>>
    ELSE DataLeavesOf(p.parts, 1)

\* the text of a leaf: its data decoded, what is no UTF-8 replaced
LeafText(p) == DecodeReplace(Val(p.data)).v

LeavesOfType(p, types) == SelectSeq(DataLeaves(p), LAMBDA leaf : leaf.mimeType \in types)

ReadDone == inv.tool = "read_email" /\ inv.result.kind = "success"

\* the message as get_message returned it to this invocation
FetchedMsg == Val(inv.calls[CHOOSE i \in CallsOf("get_message") : TRUE].reply)

\* C10: the body read_email resolves is the text/plain fragments of the
\* whole tree joined by newlines, in document order, when there is one (a
\* data-bearing part without mimeType counting as text/plain); else the
\* text reduced from the first text/html fragment alone; else the fixed
\* placeholder.
C10_BodyResolution ==
    ReadDone =>
        LET p == FetchedMsg.payload
            plain == LeavesOfType(p, {None, Some("text/plain")})
            html == LeavesOfType(p, {Some("text/html")})
            body == inv.result.info.body
        IN  IF plain # <<>>
            THEN body = BodyText(JoinLines([k \in 1..Len(plain) |-> LeafText(plain[k])]))
            ELSE IF html # <<>>
            THEN body = BodyText(HtmlToText(LeafText(html[1])))
            ELSE body = Placeholder

\* an HTML part, a part without mimeType and a plain part, in that order:
\* the body is the last two joined, the HTML ignored
C10_Witness ==
    /\ ReadDone
    /\ Len(LeavesOfType(FetchedMsg.payload, {Some("text/html")})) = 1
    /\ Len(LeavesOfType(FetchedMsg.payload, {None})) = 1
    /\ Len(LeavesOfType(FetchedMsg.payload, {Some("text/plain")})) = 1
    /\ inv.result.info.body = BodyText(TextB \o <<10>> \o TextP)

-----------------------------------------------------------------------------
(* C1: every tool invocation ends with a returned string.                  *)

\* C1: whatever tool is called, with whatever arguments and whatever the
\* outcome of each transport call it makes, the invocation ends with a
\* returned string: nothing leaves the tool as a raised exception.
C1_EveryToolReturnsAString == inv.result.kind # "raised"

\* C1, the part about the transport: an exception that leaves a tool is not
\* the failure of a transport call.  The only one that leaves one is the
\* OverflowError of get_recent_emails, raised before the tool makes any call.
C1_TransportFailuresReturned ==
    inv.result.kind = "raised" =>
        /\ inv.tool = "get_recent_emails"
        /\ inv.result.detail = "OverflowError"
        /\ inv.calls = <<>>

\* get_recent_emails has let the OverflowError of its date arithmetic out
C1_Witness ==
    /\ inv.tool = "get_recent_emails"
    /\ inv.args.days = TooManyDays
    /\ inv.result.kind = "raised"

-----------------------------------------------------------------------------
(* C2: read before write.                                                  *)

MessageTools ==
    {"label_email", "remove_email_label", "mark_as_read", "mark_as_unread", "delete_email"}

DraftTools == {"update_email_draft", "send_draft"}

BatchTools == {"batch_apply_label", "batch_delete_emails"}

\* the transport calls that change a message or a draft, and those that
\* fetch one
MutatingOps ==
    {"apply_label", "remove_label", "modify_message", "delete_message", "update_draft",
     "send_draft"}

FetchOps == {"get_message", "get_draft"}

\* the i-th call of the invocation comes after a successful fetch of its target
FetchedBefore(i) ==
    \E j \in 1..(i - 1) :
        /\ inv.calls[j].op \in FetchOps
        /\ inv.calls[j].target = inv.calls[i].target
        /\ inv.calls[j].outcome = "ok"

\* every mutating call of the invocation comes after a successful fetch
WritesAreFetched ==
    \A i \in 1..Len(inv.calls) : inv.calls[i].op \in MutatingOps => FetchedBefore(i)

\* the fetches of the invocation that failed
FailedFetches ==
    {j \in 1..Len(inv.calls) : inv.calls[j].op \in FetchOps /\ inv.calls[j].outcome # "ok"}

\* no mutating call of the invocation is on the target of its j-th call
NoWriteOn(j) ==
    \A i \in 1..Len(inv.calls) :
        inv.calls[i].op \in MutatingOps => inv.calls[i].target # inv.calls[j].target

\* C2 as stated: in every mutating tool, the batch tools included, a mutating
\* call on a target comes after a successful fetch of that target in the same
\* invocation, and a failed fetch ends the tool with a not-found result and
\* without a mutating call on the target.
C2_ReadBeforeWrite ==
    inv.tool \in MessageTools \cup DraftTools \cup BatchTools =>
        /\ WritesAreFetched
        /\ \A j \in FailedFetches : inv.result.kind = "not_found" /\ NoWriteOn(j)

\* C2, amended: in the tools that take one message or draft id, a mutating
\* call on the target comes after a successful fetch of it in the same
\* invocation; after a failed fetch there is no mutating call on the target,
\* and the result is not-found in the message tools whatever the failure, in
\* the draft tools not-found when the API rejected the fetch and an error
\* when the fetch failed in another way.
C2_SingleTargetReadBeforeWrite ==
    inv.tool \in MessageTools \cup DraftTools =>
        /\ WritesAreFetched
        /\ \A j \in FailedFetches :
              /\ NoWriteOn(j)
              /\ inv.result.kind =
                    IF inv.tool \in MessageTools \/ inv.calls[j].outcome = "reject"
                    THEN "not_found" ELSE "error"

\* delete_email could not fetch an existing message: it answered not-found
\* and trashed nothing
C2_Witness ==
    /\ inv.tool = "delete_email"
    /\ \E j \in FailedFetches : inv.calls[j].outcome = "fault" /\ NoWriteOn(j)
    /\ inv.result.kind = "not_found"
    /\ ~HasCall("delete_message")

-----------------------------------------------------------------------------
(* C3: the loop of the batch tools.                                        *)

BatchOp == IF inv.tool = "batch_apply_label" THEN "apply_label" ELSE "delete_message"

\* the search of the invocation returned a list: the ids the API found, or
\* the empty list the wrapper makes of a rejection
ListReturned == \E i \in CallsOf("search_messages") : inv.calls[i].outcome # "fault"

Searched ==
    LET i == CHOOSE k \in CallsOf("search_messages") : TRUE IN
    IF inv.calls[i].outcome = "ok" THEN Val(inv.calls[i].reply) ELSE <<>>

\* the calls of the loop, in the order they were made
Attempts == SelectSeq(inv.calls, LAMBDA c : c.op = BatchOp)

\* each id of the list was tried once, in list order, the loop's calls are
\* the last of the invocation, and the result is the tally S out of N
TalliedLoop ==
    /\ Len(Attempts) = Len(Searched)
    /\ \A k \in 1..Len(Searched) : Attempts[k].target = Searched[k]
    /\ SubSeq(inv.calls, Len(inv.calls) - Len(Searched) + 1, Len(inv.calls)) = Attempts
    /\ inv.result.kind = "success"
    /\ inv.result.info =
          Tally(Cardinality({k \in 1..Len(Attempts) : Attempts[k].outcome = "ok"}),
                Len(Searched))

\* the label of batch_apply_label was found in the list of labels or created
LabelResolved ==
    /\ \E i \in CallsOf("get_labels") : inv.calls[i].outcome # "fault"
    /\ \A i \in CallsOf("create_label") : inv.calls[i].outcome = "ok"

\* C3 as stated: whatever list of N ids the search returned, the batch tool
\* tries each id once, in list order, a failure stops nothing, and the result
\* is the tally S out of N with S the number of calls that succeeded.
C3_EveryIdAttempted == inv.tool \in BatchTools /\ ListReturned => TalliedLoop

\* C3, amended: the same, when the search returned at least one id and, in
\* batch_apply_label, the label was found or created.
C3_LoopTally ==
    /\ inv.tool \in BatchTools
    /\ ListReturned
    /\ Searched # <<>>
    /\ inv.tool = "batch_apply_label" => LabelResolved
    => TalliedLoop

\* a batch went over two ids, failed on the first and succeeded on the second
C3_Witness ==
    /\ inv.tool \in BatchTools
    /\ ListReturned
    /\ inv.result.kind = "success"
    /\ Len(Searched) = 2
    /\ Len(Attempts) = 2
    /\ Attempts[1].outcome # "ok"
    /\ Attempts[2].outcome = "ok"
    /\ inv.result.info = Tally(1, 2)

-----------------------------------------------------------------------------
(* C11: a part with a file name is an attachment.                          *)

\* the parts of a stored tree that have a file name, and the parts without
\* one that carry inline data, each in document order and found without
\* entering a part of either kind
RECURSIVE NamedParts(_)
RECURSIVE NamedPartsOf(_, _)
RECURSIVE InlineLeaves(_)
RECURSIVE InlineLeavesOf(_, _)

NamedPartsOf(parts, i) ==
    IF i > Len(parts) THEN <<>> ELSE NamedParts(parts[i]) \o NamedPartsOf(parts, i + 1)

NamedParts(p) ==
    IF p.filename # "" THEN <<p>>
    ELSE IF TruthyText(p.data) THEN <<>>
    ELSE NamedPartsOf(p.parts, 1)

InlineLeavesOf(parts, i) ==
    IF i > Len(parts) THEN <<>> ELSE InlineLeaves(parts[i]) \o InlineLeavesOf(parts, i + 1)

InlineLeaves(p) ==
    IF p.filename # "" THEN <<>>
    ELSE IF TruthyText(p.data) THEN <<p>>
    ELSE InlineLeavesOf(p.parts, 1)

\* the fragments of the leaves, as the extractor records them
FragmentsOf(leaves) ==
    [k \in 1..Len(leaves) |->
        Fragment(IF leaves[k].mimeType = None THEN "text/plain" ELSE Val(leaves[k].mimeType),
                 LeafText(leaves[k]))]

\* C11: in read_email every part that has a non-empty file name is an
\* attachment and no inline content: the body is resolved from the parts
\* without a file name alone, whether or not a named part carries inline
\* data, and with include_attachments every named part is listed.
C11_NamedPartsAreAttachments ==
    ReadDone =>
        LET p == FetchedMsg.payload
            listed == inv.result.info.attachments
        IN  /\ inv.result.info.body = ResolveBody(FragmentsOf(InlineLeaves(p)))
            /\ inv.args.include_attachments =>
                  /\ Len(listed) = Len(NamedParts(p))
                  /\ \A k \in 1..Len(listed) : listed[k].filename = NamedParts(p)[k].filename

\* read_email read a message with a named text part that carries inline
\* data: the text of that part is the body, and the part is not listed
C11_Witness ==
    /\ ReadDone
    /\ inv.args.include_attachments
    /\ \E k \in 1..Len(NamedParts(FetchedMsg.payload)) :
          LET n == NamedParts(FetchedMsg.payload)[k] IN
          /\ TruthyText(n.data)
          /\ inv.result.info.body = BodyText(LeafText(n))
          /\ \A j \in 1..Len(inv.result.info.attachments) :
                inv.result.info.attachments[j].filename # n.filename

-----------------------------------------------------------------------------
(* SpecSize: one read_email call on a message with one attachment, over    *)
(* the sizes around the thresholds of the size string.                     *)

KB == 1024

MB == 1048576

AttachmentSizes ==
    (0..2) \cup {500} \cup ((KB - 3)..(KB + 3)) \cup {1075, 1076, 1077, 2048}
        \cup ((MB - 3)..(MB + 3)) \cup {5242880, 104857600}

SizedAttachment(size) == GPart(Some("application/pdf"), "a.pdf", None, size, <<>>)

InitSize ==
    /\ labels = BaseLabels
    /\ \E size \in AttachmentSizes :
          msgs = [BaseMsgs EXCEPT
                     !["m1"] = Message(Some({"INBOX"}),
                                       WithHeaders(Multi("multipart/mixed",
                                                         <<PlainPart(TextP),
                                                           SizedAttachment(size)>>),
                                                   <<Header("Subject", "S")>>))]
    /\ drafts = [d \in DraftIds |-> None]
    /\ profile = "me@x.com"
    /\ files = NoFiles
    /\ inv = Idle
    /\ served = 0

NextSize == read_email({"m1"})

SpecSize == InitSize /\ [][NextSize]_vars

\* read_email listed the attachments of the message it read
ListedAttachments ==
    /\ ReadDone
    /\ inv.args.include_attachments
    /\ inv.result.info.attachments # <<>>

\* the stored size of the k-th part with a file name
NamedSize(k) == NamedParts(FetchedMsg.payload)[k].size

\* C12: the size string of an attachment takes its unit by the thresholds
\* size < 1024 -> bytes, 1024 <= size < 1024^2 -> KB, 1024^2 <= size -> MB,
\* the boundary values 1024 and 1048576 included.
C12_UnitByThreshold ==
    ListedAttachments =>
        \A k \in 1..Len(inv.result.info.attachments) :
            inv.result.info.attachments[k].size.unit =
                IF NamedSize(k) < KB THEN "bytes"
                ELSE IF NamedSize(k) < MB THEN "KB"
                ELSE "MB"

\* read_email listed an attachment of exactly 1024 bytes as "1024 bytes"
C12_Witness ==
    /\ ListedAttachments
    /\ NamedSize(1) = KB
    /\ inv.result.info.attachments[1].size = [unit |-> "bytes", tenths |-> KB * 10]

-----------------------------------------------------------------------------
(* C13: a call the API rejects ends in an error result.                    *)

\* the calls of the invocation that the API rejected
Rejected == {i \in 1..Len(inv.calls) : inv.calls[i].outcome = "reject"}

\* the result is an error string ("Error ...", "Could not retrieve ...")
ErrorResult == inv.result.kind \in {"error", "unavailable"}

\* C13: whenever the API rejects a transport call of a tool invocation, the
\* result of the tool is an error string: never a success, an empty listing
\* or a not-found.
C13_RejectionIsAnError == ~IsIdle /\ Rejected # {} => ErrorResult

\* the API rejected the search of search_emails, and the tool answered that
\* no emails match the query
C13_Witness ==
    /\ inv.tool = "search_emails"
    /\ \E i \in Rejected : inv.calls[i].op = "search_messages"
    /\ inv.result = ResultI("empty", "no_emails", "", <<inv.args.query>>)

-----------------------------------------------------------------------------
(* C14: decoding the inline data of a part never fails.                    *)

\* read_email fetched the message it was asked for
ReadFetched ==
    /\ inv.tool = "read_email"
    /\ \E i \in CallsOf("get_message") : inv.calls[i].outcome = "ok"

\* the leaves of the fetched message whose data is no base64 string
UndecodableLeaves ==
    SelectSeq(DataLeaves(FetchedMsg.payload),
              LAMBDA leaf : ~urlsafe_b64decode(Val(leaf.data)).ok)

\* C14: whatever the inline data of the parts (base64url or not, UTF-8 or
\* not), read_email decodes every data-bearing leaf to a text, with what it
\* cannot decode replaced: once the message is fetched the result is the
\* email and never an error.
C14_DecodeNeverFails == ReadFetched => ReadDone

\* read_email fetched a message with a leaf whose data is wrongly padded
\* base64, and the result is the error of the decoder
C14_Witness ==
    /\ ReadFetched
    /\ UndecodableLeaves # <<>>
    /\ inv.result = Result("error", "binascii.Error", "")


-----------------------------------------------------------------------------
(* C15: the importance headers of send_email.                              *)

SendEmailComposed == inv.tool = "send_email" /\ inv.written # None

\* the spellings of the two recognised importance values
HighSpellings == {"high", "High", "HIGH"}

LowSpellings == {"low", "Low", "LOW"}

\* the Importance and X-Priority values the request asks for
ImportanceAsked ==
    LET i == inv.args.importance IN
    IF i = None THEN <<{}, {}>>
    ELSE IF Val(i) \in HighSpellings THEN <<{"high"}, {"1"}>>
    ELSE IF Val(i) \in LowSpellings THEN <<{"low"}, {"5"}>>
    ELSE <<{}, {}>>

\* C15: for every importance string of send_email, in any letter case, high
\* sets Importance: high and X-Priority: 1, low sets Importance: low and
\* X-Priority: 5, and every other value (absent, normal, medium) sets neither
\* header and causes no error: the two headers come together or not at all,
\* and the send is attempted whatever the importance is.
C15_ImportanceMapping ==
    /\ SendEmailComposed =>
          /\ MimeHeader(Val(inv.written), "Importance") = ImportanceAsked[1]
          /\ MimeHeader(Val(inv.written), "X-Priority") = ImportanceAsked[2]
          /\ (MimeHeader(Val(inv.written), "Importance") = {})
                <=> (MimeHeader(Val(inv.written), "X-Priority") = {})
    /\ inv.tool = "send_email" /\ LookedUp =>
          /\ SendEmailComposed
          /\ HasCall("send_message")
          /\ \A i \in CallsOf("send_message") :
                inv.calls[i].outcome = "ok" => inv.result.kind = "success"

C15_Witness ==
    /\ SendEmailComposed
    /\ inv.args.importance = Some("HIGH")
    /\ MimeHeader(Val(inv.written), "Importance") = {"high"}
    /\ MimeHeader(Val(inv.written), "X-Priority") = {"1"}
    /\ inv.result.kind = "success"


-----------------------------------------------------------------------------
(* C16: the structure of the messages the send and create tools compose.   *)

PlainTools == {"send_email", "create_email_draft"}

AttachmentTools == {"send_email_with_attachment", "send_email_with_multiple_attachments"}

Composed == inv.tool \in PlainTools \cup AttachmentTools /\ inv.written # None

\* the multipart/alternative container of the composed message
Alternative ==
    IF inv.tool \in PlainTools THEN Val(inv.written) ELSE Val(inv.written).parts[1]

\* the children of the composed message after the body container
AfterBodies == SubSeq(Val(inv.written).parts, 2, Len(Val(inv.written).parts))

\* the names of the files the request attaches, in the order of the request
FilesAsked ==
    IF MultiSend THEN Names(SelectSeq(inv.args.attachment_paths,
                                      LAMBDA p : IsFile(files, p)))
    ELSE <<Basename(inv.args.attachment_path)>>

\* the leaves of the body container: text/plain first, text/html second
\* exactly when a non-empty html_body was given
BodyLeaves(alt) ==
    /\ alt.ctype = "multipart/alternative"
    /\ Len(alt.parts) = IF TruthyText(inv.args.html_body) THEN 2 ELSE 1
    /\ alt.parts[1] = MIMEText(inv.args.body, "plain")
    /\ TruthyText(inv.args.html_body) =>
          alt.parts[2] = MIMEText(Val(inv.args.html_body), "html")

\* C16: in every message composed by send_email, create_email_draft and the
\* two attachment tools, the multipart/alternative container has the
\* text/plain leaf as its first child and a text/html leaf as its second
\* child exactly when a non-empty html_body was given; in the attachment
\* tools the message is multipart/mixed, its first child is that container,
\* and the children after it are one part per attached file, in input order.
C16_ComposedStructure ==
    Composed =>
        /\ inv.tool \in AttachmentTools =>
              /\ Val(inv.written).ctype = "multipart/mixed"
              /\ Len(Val(inv.written).parts) >= 1
              /\ Len(AfterBodies) = Len(FilesAsked)
              /\ \A k \in 1..Len(AfterBodies) :
                    AfterBodies[k] = MIMEApplication(FilesAsked[k])
        /\ BodyLeaves(Alternative)

C16_Witness ==
    /\ Composed
    /\ MultiSend
    /\ TruthyText(inv.args.html_body)
    /\ Len(Alternative.parts) = 2
    /\ Alternative.parts[2].ctype = "text/html"
    /\ Len(AfterBodies) = 2
    /\ AfterBodies[1].filename # AfterBodies[2].filename
    /\ Len(inv.args.attachment_paths) = 2
    /\ inv.args.attachment_paths[1] # inv.args.attachment_paths[2]


-----------------------------------------------------------------------------
(* SpecTrip: send_email composes a message with a plain body and nothing   *)
(* else, the mailbox files what was sent under the id the send returned,   *)
(* and read_email reads it back.                                           *)

\* "", "X", "a\nb", "a\rb", "a\r\nb", "b\n", e-acute, e-acute "\rb", "<b>H",
\* "a<br>&amp;", " "
TripBodies ==
    { <<>>, <<88>>, <<97, 10, 98>>, <<97, 13, 98>>, <<97, 13, 10, 98>>, <<98, 10>>,
      <<233>>, <<233, 13, 98>>, TextH, TextBr, <<32>> }

TripRequests ==
    [to : {"a@x.com"}, subject : {"S", ""}, body : TripBodies,
     cc : Opt({"c@x.com"}), bcc : {None}, html_body : {None},
     importance : Opt({"high"})]

SentId == "sent1"

\* users.messages.send files the message it sends under the id it returns
Filed(ms, calls, written) ==
    IF written # None
       /\ \E i \in 1..Len(calls) : calls[i].op = "send_message" /\ calls[i].outcome = "ok"
    THEN [id \in DOMAIN ms \cup {SentId} |->
             IF id = SentId THEN Message(Some({"SENT"}), StorePart(Val(written)))
             ELSE ms[id]]
    ELSE ms

\* send_email, and what a successful send leaves in the mailbox
send_email_filed(Requests) ==
    /\ Ready
    /\ \E req \in Requests, o \in SendOracles :
          LET r == SendEmailRun(req, profile, o)
          IN  /\ inv' = Invocation("send_email", req, r)
              /\ msgs' = Filed(msgs, r.calls, r.written)
    /\ UNCHANGED <<labels, drafts, profile, files, served>>

InitTrip ==
    /\ labels = BaseLabels
    /\ msgs = BaseMsgs
    /\ drafts = [d \in DraftIds |-> None]
    /\ profile = "me@x.com"
    /\ files = NoFiles
    /\ inv = Idle
    /\ served = 0

NextTrip ==
    \/ send_email_filed(TripRequests)
    \/ read_email({SentId})
    \/ Respond

SpecTrip == InitTrip /\ [][NextTrip]_vars

-----------------------------------------------------------------------------
(* C17: the round trip of a plain body through send_email and read_email.  *)

AllOk == [service |-> "ok", get_profile |-> "ok", send_message |-> "ok"]

\* the message send_email composes for a request
ComposedFor(req) == Val(SendEmailBody(req, profile, AllOk).written)

ReadSent == ReadDone /\ inv.args.message_id = SentId

\* the requests whose message is the one that was read
Origins == {req \in TripRequests : StorePart(ComposedFor(req)) = FetchedMsg.payload}

HasCR(t) == \E i \in 1..Len(t) : t[i] = 13

-----------------------------------------------------------------------------
(* C18: the one send of send_email.                                        *)

SendEmail == inv.tool = "send_email"

SendSucceeded ==
    \E i \in CallsOf("send_message") : inv.calls[i].outcome = "ok"

\* C18: send_email calls the transport send at most once in an invocation;
\* when that call succeeds the result is the success that carries the id
\* the server gave the message; when the service or the profile lookup
\* failed, send is not called at all.
C18_OneSend ==
    SendEmail =>
        /\ Times("send_message") <= 1
        /\ SendSucceeded =>
              inv.result = ResultI("success", "sent", SentId,
                                   <<inv.args.to, inv.args.subject>>)
        /\ ~LookedUp => ~HasCall("send_message")
        /\ LookedUp => Times("send_message") = 1

C18_Witness ==
    /\ SendEmail
    /\ Times("send_message") = 1
    /\ SendSucceeded
    /\ inv.result.kind = "success"
    /\ inv.result.id = SentId


-----------------------------------------------------------------------------
(* C19, C20: the validation error of update_email_draft.                   *)

UpdateDraft == inv.tool = "update_email_draft"

ValidationError == UpdateDraft /\ inv.result = Result("error", "validation", "")

\* C19: in update_email_draft at least one of the plain and the HTML body
\* is resolvable for every request (body and html_body each unset, empty or
\* set, over every existing payload), so the "Cannot update draft with
\* empty body" error is never returned.
C19_NoValidationError == ~ValidationError

C19_Witness ==
    /\ ValidationError
    /\ inv.args.req.body = None
    /\ inv.args.req.html_body = Some(<<>>)
    /\ \E i \in CallsOf("get_draft") : inv.calls[i].outcome = "ok"
    /\ ~HasCall("update_draft")


UpdateFailed == UpdateDraft /\ inv.result.kind \in {"error", "not_found"}

\* C20: whenever update_email_draft returns an error result (draft not
\* found, validation error, failed profile lookup, rejected update), the
\* stored drafts are what they were before the call, and the validation
\* error is returned without any update_draft call.
C20_ErrorLeavesDraft ==
    [][ /\ UpdateFailed' => drafts' = drafts
        /\ ValidationError' => ~HasCall("update_draft")' ]_vars

\* a rejected update: the draft is still the one get_draft returned
C20_Witness ==
    /\ UpdateFailed
    /\ \E i \in CallsOf("update_draft") : inv.calls[i].outcome = "reject"
    /\ inv.written # None
    /\ drafts[inv.args.draft_id] = Some(FetchedDraft)
    /\ StorePart(Val(inv.written)) # FetchedDraft


-----------------------------------------------------------------------------
(* C21: the shape of the message update_email_draft writes.                *)

\* final_plain_body and final_html_body of the invocation
ResolvedBodies ==
    ResolveBodies(FetchedDraft, inv.args.req.body, inv.args.req.html_body).v

\* C21: the message update_email_draft writes is, when the resolved HTML
\* body is non-empty, a multipart/alternative with exactly two children, a
\* text/plain part first (empty when the plain body is empty or absent) and
\* the text/html part second; when only a plain body is resolved it is a
\* single text/plain part with no multipart wrapper.
C21_WrittenShape ==
    UpdWritten =>
        LET m == Val(inv.written)
            plain == ResolvedBodies.plain
            html == ResolvedBodies.html
        IN  IF TruthyText(html)
            THEN /\ m.ctype = "multipart/alternative"
                 /\ Len(m.parts) = 2
                 /\ m.parts[1] = MIMEText(IF TruthyText(plain) THEN Val(plain) ELSE <<>>,
                                          "plain")
                 /\ m.parts[2] = MIMEText(Val(html), "html")
            ELSE /\ plain # None
                 /\ m.ctype = "text/plain"
                 /\ m.parts = <<>>
                 /\ m.text = Val(plain)

\* an HTML body alone: the plain part is there and empty
C21_Witness ==
    /\ UpdWritten
    /\ inv.args.req.body = None
    /\ inv.args.req.html_body = Some(TextG)
    /\ Val(inv.written).ctype = "multipart/alternative"
    /\ Len(Val(inv.written).parts) = 2
    /\ Val(inv.written).parts[1].text = <<>>
    /\ Val(inv.written).parts[2].text = TextG


-----------------------------------------------------------------------------
(* C22: the existing body update_email_draft falls back to.                *)

\* the request supplies neither body and the updated message was written
KeptBodies ==
    /\ UpdWritten
    /\ inv.args.req.body = None
    /\ inv.args.req.html_body = None

\* the direct children of the payload that are of the type and carry data
ChildrenOfType(p, type) ==
    {i \in 1..Len(p.parts) : p.parts[i].mimeType = Some(type) /\ p.parts[i].data # None}

\* the text of the first of them, None when there is none
FirstChildText(p, type) ==
    IF ChildrenOfType(p, type) = {} THEN None
    ELSE LET i == CHOOSE k \in ChildrenOfType(p, type) :
                      \A j \in ChildrenOfType(p, type) : k <= j
         IN  Some(DecodeStrict(Val(p.parts[i].data)).v)

\* the content of a composed message without its headers
Content(m) == [ctype |-> m.ctype, text |-> m.text, parts |-> m.parts]

\* C22: when neither body nor html_body is supplied, update_email_draft
\* takes from a multipart draft the first direct child of type text/plain
\* that carries data and the first direct child of type text/html that
\* carries data, and looks into no nested multipart; when it finds no plain
\* part the plain body is the empty string.
C22_ShallowExtraction ==
    KeptBodies /\ FetchedDraft.parts # <<>> =>
        LET found == FirstChildText(FetchedDraft, "text/plain")
            plain == IF found = None THEN Some(<<>>) ELSE found
            html == FirstChildText(FetchedDraft, "text/html")
        IN  Content(Val(inv.written)) = Content(Val(ComposeDraftBody(plain, html)))

\* a draft whose bodies sit in a nested multipart/alternative: nothing is
\* taken from it and the written message is an empty text/plain part
C22_Witness ==
    /\ KeptBodies
    /\ Len(FetchedDraft.parts) = 2
    /\ FetchedDraft.parts[1].parts # <<>>
    /\ FetchedDraft.parts[2].filename # ""
    /\ Val(inv.written).ctype = "text/plain"
    /\ Val(inv.written).text = <<>>


-----------------------------------------------------------------------------
(* C23: the walk of read_email's extractor.                                *)

\* the parts the extractor lists: those with a file name and without inline
\* data, in document order, found without entering a part that carries data
RECURSIVE AttachmentLeaves(_)
RECURSIVE AttachmentLeavesOf(_, _)

AttachmentLeavesOf(parts, i) ==
    IF i > Len(parts) THEN <<>>
    ELSE AttachmentLeaves(parts[i]) \o AttachmentLeavesOf(parts, i + 1)

AttachmentLeaves(p) ==
    IF TruthyText(p.data) THEN <<>>
    ELSE IF p.filename # "" THEN <<p>>
    ELSE AttachmentLeavesOf(p.parts, 1)

\* the entry of the attachment list for a part
Listing(p) ==
    [filename |-> p.filename,
     mimeType |-> IF p.mimeType = None THEN "application/octet-stream" ELSE Val(p.mimeType),
     size |-> SizeStr(p.size)]

\* the body the other value of include_attachments gives for the message
BodyOtherwise ==
    ResolveBody(get_body_and_attachments(FetchedMsg.payload,
                                         ~inv.args.include_attachments, <<>>).v.parts)

\* C23: read_email's extractor walks the tree depth-first and keeps the
\* order: the body fragments and the attachments come in the document order
\* of the leaves, a part with inline data is not descended into even when
\* it has children, the attachment list is empty when include_attachments
\* is false, and the body is the same for both values of include_attachments.
C23_DocumentOrder ==
    ReadDone =>
        LET p == FetchedMsg.payload
            listed == inv.result.info.attachments
        IN  /\ inv.result.info.body = ResolveBody(FragmentsOf(DataLeaves(p)))
            /\ listed = IF inv.args.include_attachments
                        THEN [k \in 1..Len(AttachmentLeaves(p)) |->
                                 Listing(AttachmentLeaves(p)[k])]
                        ELSE <<>>
            /\ inv.result.info.body = BodyOtherwise

\* two attachments at different depths and two plain parts around them
C23_Witness ==
    /\ ReadDone
    /\ inv.args.include_attachments
    /\ Len(FetchedMsg.payload.parts) = 3
    /\ Len(inv.result.info.attachments) = 2
    /\ inv.result.info.attachments[1].filename = "b.png"
    /\ inv.result.info.attachments[2].filename = "a.pdf"
    /\ inv.result.info.body = BodyText(TextQ \o <<10>> \o TextP)


-----------------------------------------------------------------------------
(* C24: which of several headers of one name is used.                      *)

\* the indices of the headers whose name is key in any letter case
Named(hs, key) == {i \in 1..Len(hs) : Lower(hs[i].name) = key}

\* the value of the first such header, the default when there is none
FirstValue(hs, key, default) ==
    IF Named(hs, key) = {} THEN default
    ELSE hs[CHOOSE i \in Named(hs, key) : \A j \in Named(hs, key) : i <= j].value

\* the value of the last such header
LastValue(hs, key, default) ==
    IF Named(hs, key) = {} THEN default
    ELSE hs[CHOOSE i \in Named(hs, key) : \A j \in Named(hs, key) : j <= i].value

\* C24: the header lookup is first-match and case-insensitive wherever it
\* is used: of several headers with the same name in any letter case,
\* read_email and the existing-value fallback of update_email_draft use the
\* value of the first, and the stated default when no header matches.
C24_FirstMatchEverywhere ==
    /\ ReadDone =>
          LET hs == FetchedMsg.payload.headers IN
          /\ inv.result.info.sender = FirstValue(hs, "from", "Unknown Sender")
          /\ inv.result.info.recipient = FirstValue(hs, "to", "Unknown Recipient")
    /\ UpdWritten =>
          LET hs == FetchedDraft.headers
              m == Val(inv.written)
          IN  /\ inv.args.req.to = None =>
                    MimeHeader(m, "To") = {FirstValue(hs, "to", "")}
              /\ inv.args.req.subject = None =>
                    MimeHeader(m, "Subject") = {FirstValue(hs, "subject", "")}

\* a draft with two To headers updated without a to: the last one is kept
C24_Witness ==
    /\ UpdWritten
    /\ inv.args.req.to = None
    /\ FirstValue(FetchedDraft.headers, "to", "") = "a@x.com"
    /\ LastValue(FetchedDraft.headers, "to", "") = "a2@x.com"
    /\ MimeHeader(Val(inv.written), "To") = {"a2@x.com"}


-----------------------------------------------------------------------------
(* SpecLabel: one delete_email_label call on every label list and name of  *)
(* the domain.                                                             *)

LabelLists ==
    { BaseLabels,
      <<>>,
      <<SystemLabel("INBOX")>>,
      <<UserLabel("Label_1", "Work"), UserLabel("Label_2", "Todo")>>,
      <<UserLabel("Label_2", "Todo"), SystemLabel("INBOX"), UserLabel("Label_1", "WORK"),
        SystemLabel("UNREAD")>> }

DeleteNames == {"inbox", "INBOX", "Unread", "work", "Work", "todo", "Date"}

InitLabel ==
    /\ labels \in LabelLists
    /\ msgs = BaseMsgs
    /\ drafts = [d \in DraftIds |-> None]
    /\ profile = "me@x.com"
    /\ files = NoFiles
    /\ inv = Idle
    /\ served = 0

NextLabel == delete_email_label(DeleteNames)

SpecLabel == InitLabel /\ [][NextLabel]_vars

-----------------------------------------------------------------------------
(* C25: delete_email_label and the system labels.                          *)

DeleteLabel == inv.tool = "delete_email_label"

\* the labels of ls whose name is n in any letter case
LabelsNamed(ls, n) == {k \in 1..Len(ls) : Lower(ls[k].name) = Lower(n)}

\* the label list the tool got from get_labels: the account's labels, or
\* none when the wrapper swallowed a rejection; no list when the lookup
\* raised
Listed == \E i \in CallsOf("get_labels") : inv.calls[i].outcome \in {"ok", "reject"}

ListedOk == \E i \in CallsOf("get_labels") : inv.calls[i].outcome = "ok"

\* C25: delete_email_label never calls delete_label with the id of a
\* system label: for every label list and every name, a name that matches
\* (in any letter case) a system label of the list the tool got gives the
\* refusal and no delete call, and a name that matches no label of that
\* list gives the not-found result and no delete call.
C25_SystemLabelsKept ==
    [][ DeleteLabel' =>
          LET seen == IF ListedOk' THEN labels ELSE <<>>
              name == inv'.args.name
          IN  /\ \A i \in CallsOf("delete_label")' :
                    \A k \in 1..Len(labels) :
                        labels[k].id = inv'.calls[i].target => labels[k].type # "system"
              /\ Listed' /\ (\E k \in LabelsNamed(seen, name) : seen[k].type = "system") =>
                    /\ inv'.result = ResultI("refused", "system_label", "", <<name>>)
                    /\ ~HasCall("delete_label")'
              /\ Listed' /\ LabelsNamed(seen, name) = {} =>
                    /\ inv'.result = ResultI("not_found", "label", "", <<name>>)
                    /\ ~HasCall("delete_label")'
              /\ ~Listed' => ~HasCall("delete_label")'
              /\ \A k \in 1..Len(labels) :
                    labels[k].type = "system" => \E j \in 1..Len(labels') : labels'[j] = labels[k]
      ]_vars

\* the name "inbox" against a list that holds the system label INBOX
C25_Witness ==
    /\ DeleteLabel
    /\ inv.args.name = "inbox"
    /\ ListedOk
    /\ \E k \in 1..Len(labels) : labels[k].id = "INBOX" /\ labels[k].type = "system"
    /\ inv.result.kind = "refused"
    /\ ~HasCall("delete_label")


-----------------------------------------------------------------------------
(* C26: create_label and the names the mailbox already holds.              *)

LabelTools == {"create_email_label", "label_email", "batch_apply_label"}

\* the label list holds two labels whose names are equal ignoring case
DuplicateNames(ls) ==
    \E j, k \in 1..Len(ls) : j # k /\ Lower(ls[j].name) = Lower(ls[k].name)

\* C26: create_email_label, label_email and batch_apply_label call
\* create_label for a name only when the mailbox holds no label of that
\* name in any letter case at that moment, also when the label listing is
\* rejected; so from a mailbox without such duplicates these tools never
\* make two labels whose names are equal ignoring case.
C26_CreateOnlyWhenAbsent ==
    [][ inv'.tool \in LabelTools =>
          /\ \A i \in CallsOf("create_label")' :
                LabelsNamed(labels, inv'.calls[i].target) = {}
          /\ ~DuplicateNames(labels) => ~DuplicateNames(labels')
      ]_vars

\* the listing was rejected, nothing was found, and create_label was called
\* for "work" in a mailbox that holds the label Work
C26_Witness ==
    /\ inv.tool = "create_email_label"
    /\ inv.args.name = "work"
    /\ \E i \in CallsOf("get_labels") : inv.calls[i].outcome = "reject"
    /\ \E i \in CallsOf("create_label") : inv.calls[i].target = "work"
    /\ \E k \in 1..Len(labels) : labels[k].id = "Label_1" /\ labels[k].name = "Work"


-----------------------------------------------------------------------------
(* C27: mark_as_read and mark_as_unread on a message that is already so.   *)

\* the message the invocation fetched carries the UNREAD label
FetchedUnread ==
    FetchedMsg.labelIds # None /\ "UNREAD" \in Val(FetchedMsg.labelIds)

\* C27: mark_as_read makes its modifying call only when the fetched message
\* carries the UNREAD label, and mark_as_unread only when it does not, for
\* every message, one without a labelIds field included; so a repeated call
\* after a success modifies nothing.
C27_ModifyOnlyOnChange ==
    /\ inv.tool = "mark_as_read" /\ HasCall("modify_message") => FetchedUnread
    /\ inv.tool = "mark_as_unread" /\ HasCall("modify_message") => ~FetchedUnread

\* mark_as_read on a message without labelIds: the modifying call is made
C27_Witness ==
    /\ inv.tool = "mark_as_read"
    /\ \E i \in CallsOf("modify_message") :
          inv.calls[i].outcome = "ok" /\ inv.calls[i].remove = {"UNREAD"}
    /\ FetchedMsg.labelIds = None
    /\ inv.result.kind = "success"
    /\ msgs[inv.args.message_id].labelIds = None


-----------------------------------------------------------------------------
(* C28: what send_email_with_multiple_attachments sends.                   *)

\* C28: whenever send_email_with_multiple_attachments calls the transport
\* send, the composed message holds at least one attachment part, for every
\* list of attachment paths, the empty list included.
C28_SendHasAttachment ==
    MultiSend /\ HasCall("send_message") => AttachedNames(Val(inv.written)) # <<>>

\* the empty list of paths: the message is sent with its bodies alone
C28_Witness ==
    /\ MultiSend
    /\ inv.args.attachment_paths = <<>>
    /\ \E i \in CallsOf("send_message") : inv.calls[i].outcome = "ok"
    /\ Len(Val(inv.written).parts) = 1
    /\ inv.result.kind = "success"
    /\ inv.result.info = <<>>


-----------------------------------------------------------------------------
(* C29: what update_email_draft leaves out of the updated draft.           *)

\* a text leaf of a composed message: no children, no file name
TextLeaf(m, ctype) == m.ctype = ctype /\ m.parts = <<>> /\ m.filename = ""

\* the existing draft holds a part with a file name
DraftHasFile == NamedParts(FetchedDraft) # <<>>

\* C29: the message update_email_draft writes holds body text parts only,
\* at most one text/plain and one text/html: it is a text/plain leaf, or a
\* multipart/alternative of a text/plain leaf and a text/html leaf.  The
\* attachments and every other part of the existing draft are left out,
\* whatever the request supplies, and so the stored draft has none of them
\* once the update is accepted.
C29_OnlyBodyParts ==
    UpdWritten =>
        LET m == Val(inv.written) IN
        /\ \/ TextLeaf(m, "text/plain")
           \/ /\ m.ctype = "multipart/alternative"
              /\ m.filename = ""
              /\ Len(m.parts) = 2
              /\ TextLeaf(m.parts[1], "text/plain")
              /\ TextLeaf(m.parts[2], "text/html")
        /\ inv.result.kind = "success" =>
              NamedParts(Val(drafts[inv.args.draft_id])) = <<>>

\* a draft with an attachment updated with a new subject alone: the draft
\* that is stored afterwards has no attachment
C29_Witness ==
    /\ UpdWritten
    /\ DraftHasFile
    /\ inv.args.req.body = None /\ inv.args.req.html_body = None
    /\ inv.args.req.subject = Some("S2")
    /\ inv.result.kind = "success"
    /\ Val(inv.written).parts = <<>>
    /\ NamedParts(Val(drafts[inv.args.draft_id])) = <<>>


-----------------------------------------------------------------------------
(* C30: when label_email and batch_apply_label create a label.             *)

\* the message of the invocation was fetched
MessageFetched == \E i \in CallsOf("get_message") : inv.calls[i].outcome = "ok"

\* the i-th call of the invocation comes after the successful fetch
AfterFetch(i) ==
    \E j \in 1..(i - 1) : inv.calls[j].op = "get_message" /\ inv.calls[j].outcome = "ok"

\* C30: label_email creates no label for a message it cannot fetch: the
\* fetch comes before the label lookup and the creation, and when it fails
\* there is no create_label and no apply_label call.  batch_apply_label
\* creates a missing label before its first apply call, and only when the
\* search returned at least one message id.
C30_CreateAfterFetch ==
    /\ inv.tool = "label_email" =>
          /\ \A i \in CallsOf("get_labels") \cup CallsOf("create_label")
                      \cup CallsOf("apply_label") : AfterFetch(i)
          /\ ~MessageFetched =>
                ~HasCall("create_label") /\ ~HasCall("apply_label")
    /\ inv.tool = "batch_apply_label" =>
          /\ \A i \in CallsOf("create_label"), j \in CallsOf("apply_label") : i < j
          /\ HasCall("create_label") \/ HasCall("apply_label") =>
                ListReturned /\ Searched # <<>>
          /\ Times("create_label") <= 1

\* label_email fetched the message, found no label Todo, created it and
\* applied it, in that order
C30_Witness ==
    /\ inv.tool = "label_email"
    /\ inv.args.label_name = "Todo"
    /\ Len(inv.calls) = 5
    /\ inv.calls[2].op = "get_message" /\ inv.calls[2].outcome = "ok"
    /\ inv.calls[4].op = "create_label" /\ inv.calls[4].outcome = "ok"
    /\ inv.calls[5].op = "apply_label" /\ inv.calls[5].outcome = "ok"
    /\ inv.result.kind = "success"
    /\ \E k \in 1..Len(labels) : labels[k].name = "Todo"

====
